---- MODULE Spec2Model ----
(***************************************************************************)
(* A model of the scoring and brief-curation pipeline of nexus-zero:       *)
(* HeatScorer / PotentialScorer (src/src/scorer), BaseScorer's persistence *)
(* of Score records (src/src/scorer/base.py) and BriefGenerator's          *)
(* selection (src/src/brief/generator.py).                                 *)
(*                                                                         *)
(* Numbers.  Python floats are modelled in fixed point: scores, sub-scores *)
(* and engagement magnitudes are integers in hundredths (round(x, 2)), the *)
(* decay factor is in thousandths, the platform factor in hundredths.      *)
(* A metric value is a natural number, or one of two sentinels:            *)
(*   BadMetric  - a value that is no number (None, a string): arithmetic   *)
(*                on it raises TypeError;                                  *)
(*   HugeMetric - an int beyond the range of a float: converting it to a   *)
(*                float raises OverflowError.                              *)
(* A function that may raise returns [ok |-> TRUE, v |-> value] or         *)
(* [ok |-> FALSE, exc |-> name of the exception].                          *)
(***************************************************************************)
EXTENDS Integers, Sequences, FiniteSets, TLC

VARIABLES
    calcIn,     \* SpecCalc: the content (and the store's answers) given to calculate
    calcOut,    \* SpecCalc: what calculate gave back to its caller, or NoResult
    contents,   \* the contents table: a sequence of Content rows, id = index
    processed,  \* the ids of the contents with is_processed = True
    scores,     \* the scores table: a sequence of Score rows in insertion order
    usable,     \* whether the scorers' Session can still emit SQL
    authorCache, \* the PotentialScorer's _author_cache
    lastOp,     \* what the call of a scorer method did and returned, until it returns
    fullRuns,   \* the calls so far: the scorers whose score_unprocessed ran over
                \* all unprocessed contents undisturbed, "other" for any other call
    briefs,     \* the daily_briefs table: for each date its DailyBrief, or NoBrief
    briefed,    \* the ids of the contents with is_briefed = True
    generated,  \* for each date what the last generate that returned gave, and
                \* the scores table it read
    passes,     \* the generate calls under way side by side, each with its own
                \* session: where each one is and what it holds
    keys,       \* KeyManager.data["keys"]: the list of key records
    now,        \* datetime.now() of the KeyManager, in minutes
    logs,       \* the fetch_logs table: the status of each FetchLog, oldest first
    lastFetchAt \* source.last_fetch_at in the store: {} for None, {t} for time t

calcVars == <<calcIn, calcOut>>
toolVars == <<keys, now, logs, lastFetchAt>>
briefVars == <<briefs, briefed, generated>>
storeVars == <<contents, processed, scores, usable, authorCache, lastOp, fullRuns,
               briefs, briefed, generated, passes, toolVars>>

vars == <<calcIn, calcOut, contents, processed, scores, usable, authorCache, lastOp, fullRuns,
          briefs, briefed, generated, passes, toolVars>>

----------------------------------------------------------------------------
(* Values *)

BadMetric == -1
HugeMetric == -2

NoResult == [kind |-> "none"]

Ok(v) == [ok |-> TRUE, v |-> v]
Raise(e) == [ok |-> FALSE, exc |-> e]

Min(a, b) == IF a <= b THEN a ELSE b
Max(a, b) == IF a >= b THEN a ELSE b

\* Clamp100 without its upper bound
ClampNoCeiling(x) == Max(0, x)

\* min(100.0, max(0.0, x)) in hundredths
Clamp100(x) == Min(10000, Max(0, x))

RECURSIVE SqrtSearch(_, _, _)
SqrtSearch(n, lo, hi) ==
    IF lo >= hi THEN lo
    ELSE LET mid == (lo + hi + 1) \div 2
         IN IF mid * mid <= n THEN SqrtSearch(n, mid, hi)
                              ELSE SqrtSearch(n, lo, mid - 1)

\* floor(sqrt(n)) for 0 <= n < 2^31
ISqrt(n) == SqrtSearch(n, 0, 46340)

\* 10 * x ** 0.5 for x in hundredths, result in hundredths: sqrt(10000 x),
\* with the precision that 32-bit integers leave
TenSqrtH(xh) ==
    IF xh <= 200000 THEN ISqrt(xh * 10000)
    ELSE IF xh <= 20000000 THEN 10 * ISqrt(xh * 100)
    ELSE 100 * ISqrt(xh)

----------------------------------------------------------------------------
(* HeatScorer *)

MetricKeys == <<"views", "likes", "reposts", "comments", "bookmarks">>

\* METRIC_WEIGHTS in hundredths
METRIC_WEIGHTS ==
    [views |-> 10, likes |-> 100, reposts |-> 200, comments |-> 300, bookmarks |-> 250]

HALF_LIFE_HOURS == 24

\* MIN_DECAY = 0.1 in thousandths
MIN_DECAY == 100

\* One turn of the loop of _calculate_engagement: the weighted value of metric
\* key, in hundredths.
MetricTerm(key, value) ==
    IF key = "views"
    THEN IF value = BadMetric THEN Raise("TypeError")            \* value > 0
         ELSE IF value = HugeMetric THEN Raise("OverflowError")   \* value / 1000
         ELSE IF value > 0
              \* 10 * (1 + value / 1000) ** 0.5, times the weight 0.1
              THEN Ok((TenSqrtH(100 + value \div 10) * METRIC_WEIGHTS[key]) \div 100)
              ELSE Ok(value * METRIC_WEIGHTS[key])
    ELSE IF value = BadMetric THEN Raise("TypeError")             \* value * weight
         ELSE IF value = HugeMetric THEN Raise("OverflowError")
         ELSE Ok(value * METRIC_WEIGHTS[key])

RECURSIVE EngagementSum(_, _, _)
EngagementSum(metrics, i, acc) ==
    IF i > Len(MetricKeys) THEN Ok(acc)
    ELSE LET t == MetricTerm(MetricKeys[i], metrics[MetricKeys[i]])
         IN IF t.ok THEN EngagementSum(metrics, i + 1, acc + t.v) ELSE t

\* _calculate_engagement: engagement magnitude in hundredths
CalculateEngagement(metrics) ==
    LET s == EngagementSum(metrics, 1, 0)
    IN IF ~s.ok THEN s
       ELSE IF s.v > 0 THEN Ok(TenSqrtH(100 + s.v)) ELSE Ok(s.v)

RECURSIVE Halve(_, _)
Halve(x, k) == IF k = 0 THEN x ELSE Halve(x \div 2, k - 1)

RECURSIVE Double(_, _)
Double(x, k) == IF k = 0 THEN x ELSE Double(x * 2, k - 1)

\* 2 ** FloatMaxExponent is the first power of two a Python float cannot hold
FloatMaxExponent == 1024

\* math.pow(0.5, hours / HALF_LIFE_HOURS) in thousandths, for hours a multiple
\* of the half life (negative: published in the future). math.pow raises
\* OverflowError ("math range error") when the result exceeds the float range.
PowHalf(hours) ==
    LET k == hours \div HALF_LIFE_HOURS
    IN IF k >= 0 THEN Ok(Halve(1000, k))
       ELSE IF -k >= FloatMaxExponent THEN Raise("OverflowError")
       ELSE Ok(Double(1000, -k))

\* _calculate_time_decay: decay factor in thousandths
CalculateTimeDecay(dated, hours) ==
    IF ~dated THEN Ok(1000)
    ELSE LET p == PowHalf(hours)
         IN IF p.ok THEN Ok(Max(MIN_DECAY, p.v)) ELSE p

\* _get_platform_factor in hundredths
GetPlatformFactor(platform) ==
    CASE platform = "x" -> 100
      [] platform = "reddit" -> 80
      [] platform = "rss" -> 50
      [] platform = "xiaohongshu" -> 120
      [] OTHER -> 100

\* The body of the try block of HeatScorer.calculate
HeatBody(c) ==
    LET e == CalculateEngagement(c.metrics)
    IN IF ~e.ok THEN e
       ELSE LET d == CalculateTimeDecay(c.dated, c.hours)
            IN IF ~d.ok THEN d
               ELSE LET decay == d.v
                        pf == GetPlatformFactor(c.platform)
                        heat == (((e.v * decay) \div 1000) * pf) \div 100
                    IN Ok([score |-> Clamp100(heat),
                           factors |-> [engagement_score |-> e.v,
                                        decay_factor |-> decay,
                                        platform_factor |-> pf,
                                        raw_metrics |-> c.metrics]])

\* TryCalculate with an except clause that lets the exception through
TryCalculateReraise(body) ==
    IF body.ok
    THEN [kind |-> "result", success |-> TRUE, score |-> body.v.score,
          factors |-> body.v.factors, error |-> "", raised |-> FALSE]
    ELSE [kind |-> "result", success |-> FALSE, score |-> 0,
          factors |-> [error |-> body.exc], error |-> body.exc, raised |-> TRUE]

\* try: ... except Exception as e: ScoreResult(0.0, {"error": str(e)}, False, str(e))
\* raised says whether an exception left calculate.
TryCalculate(body) ==
    IF body.ok
    THEN [kind |-> "result", success |-> TRUE, score |-> body.v.score,
          factors |-> body.v.factors, error |-> "", raised |-> FALSE]
    ELSE [kind |-> "result", success |-> FALSE, score |-> 0,
          factors |-> [error |-> body.exc], error |-> body.exc, raised |-> FALSE]

\* HeatScorer.calculate
HeatCalculate(c) == TryCalculate(HeatBody(c))

----------------------------------------------------------------------------
(* PotentialScorer *)

\* COMPONENT_WEIGHTS in hundredths
COMPONENT_WEIGHTS ==
    [content_quality |-> 30, author_weight |-> 20, engagement_rate |-> 25,
     growth_trend |-> 15, scarcity |-> 10]

\* A Python number with its type: the average of Score.score (a DECIMAL column)
\* is a decimal.Decimal, everything else the scorer computes is a float.
Float(v) == [v |-> v, dec |-> FALSE]
Decimal(v) == [v |-> v, dec |-> TRUE]

\* _calculate_content_quality, in hundredths
CalculateContentQuality(c) ==
    LET base == 5000
        len == IF 200 <= c.textLen /\ c.textLen <= 2000 THEN 2000
               ELSE IF 100 <= c.textLen /\ c.textLen < 200 THEN 1000
               ELSE IF c.textLen > 2000 THEN 1500
               ELSE IF c.textLen < 50 THEN -2000
               ELSE 0
        title == IF c.titleLen > 10 THEN 1000 ELSE 0
        media == IF c.hasMedia THEN 1000 ELSE 0
        http == IF c.hasHttp THEN 500 ELSE 0
    IN Min(10000, base + len + title + media + http)

RECURSIVE SeqSum(_)
SeqSum(s) == IF s = <<>> THEN 0 ELSE Head(s) + SeqSum(Tail(s))

\* weight = min(100.0, max(0.0, avg_score)): Python's max and min give back the
\* first argument unless the second is strictly greater (smaller), so the
\* Decimal average comes back as it is when it lies strictly between 0 and 100.
ClampAverage(avg) ==
    LET m == IF avg > 0 THEN Decimal(avg) ELSE Float(0)
    IN IF m.v < 10000 THEN m ELSE Float(10000)

CacheKey(c) == <<c.platform, c.authorId>>

\* _calculate_author_weight: [res |-> Ok(number) or Raise, cache |-> the cache after]
\* q.authorScores is the store's answer to the query of the author's other
\* content's scores: Ok(sequence of scores in hundredths) or Raise.
CalculateAuthorWeight(c, q, cache) ==
    IF c.authorId = "" THEN [res |-> Ok(Float(5000)), cache |-> cache]
    ELSE IF CacheKey(c) \in DOMAIN cache
    THEN [res |-> Ok(cache[CacheKey(c)]), cache |-> cache]
    ELSE IF ~q.authorScores.ok THEN [res |-> q.authorScores, cache |-> cache]
    ELSE LET prior == q.authorScores.v
             weight == IF prior = <<>> THEN Float(5500)
                       ELSE ClampAverage(SeqSum(prior) \div Len(prior))
         IN [res |-> Ok(weight),
             cache |-> [k \in DOMAIN cache \cup {CacheKey(c)} |->
                          IF k = CacheKey(c) THEN weight ELSE cache[k]]]

\* a + b of two ints of which either may be a sentinel
AddMetric(a, b) ==
    IF ~a.ok THEN a
    ELSE IF b = BadMetric THEN Raise("TypeError")
    ELSE IF a.v = BadMetric THEN Raise("TypeError")
    ELSE IF a.v = HugeMetric \/ b = HugeMetric THEN Ok(HugeMetric)
    ELSE Ok(a.v + b)

MulMetric(a, k) == IF a \in {BadMetric, HugeMetric} THEN a ELSE a * k

\* _calculate_engagement_rate, in hundredths
CalculateEngagementRate(c) ==
    LET m == c.metrics
        total == AddMetric(AddMetric(AddMetric(Ok(m.likes), MulMetric(m.comments, 2)),
                                     MulMetric(m.reposts, 3)),
                           MulMetric(m.bookmarks, 2))
    IN IF ~total.ok THEN total
       ELSE IF m.views = 0
       THEN IF total.v = HugeMetric \/ total.v > 100 THEN Ok(7000)
            ELSE IF total.v > 50 THEN Ok(6000)
            ELSE IF total.v > 10 THEN Ok(5000)
            ELSE Ok(4000)
       ELSE IF m.views = BadMetric THEN Raise("TypeError")          \* total / views
       ELSE IF m.views = HugeMetric
       THEN IF total.v = HugeMetric THEN Ok(9000) ELSE Ok(4000)
       ELSE IF total.v = HugeMetric THEN Raise("OverflowError")
       ELSE IF total.v * 100 > 20 * m.views THEN Ok(9000)
       ELSE IF total.v * 100 > 15 * m.views THEN Ok(8000)
       ELSE IF total.v * 100 > 10 * m.views THEN Ok(7000)
       ELSE IF total.v * 100 > 5 * m.views THEN Ok(6000)
       ELSE IF total.v * 100 > 2 * m.views THEN Ok(5000)
       ELSE Ok(4000)

\* _calculate_growth_trend, in hundredths
CalculateGrowthTrend(c) ==
    IF ~c.dated THEN Ok(5000)
    ELSE LET m == c.metrics
             hours == IF c.hours < 1 THEN 1 ELSE c.hours
             total == AddMetric(AddMetric(AddMetric(Ok(m.likes), m.comments),
                                          m.reposts), m.bookmarks)
         IN IF ~total.ok THEN total
            ELSE IF total.v = HugeMetric THEN Raise("OverflowError")  \* int / float
            ELSE IF total.v > 100 * hours THEN Ok(9000)
            ELSE IF total.v > 50 * hours THEN Ok(8000)
            ELSE IF total.v > 20 * hours THEN Ok(7000)
            ELSE IF total.v > 10 * hours THEN Ok(6000)
            ELSE IF total.v > 5 * hours THEN Ok(5000)
            ELSE Ok(4000)

\* _calculate_scarcity, in hundredths.  q.recent and q.position are the store's
\* answers to the two count queries: Ok(n) or Raise.
CalculateScarcity(c, q) ==
    IF ~q.recent.ok THEN q.recent
    ELSE IF q.recent.v = 0 THEN Ok(7000)
    ELSE IF ~q.position.ok THEN q.position
    ELSE Ok(4000 + (4000 - (4000 * q.position.v) \div Max(q.recent.v, 1)))

\* The weighted sum of PotentialScorer.calculate.  Decimal * float raises TypeError.
WeightedSum(cq, aw, er, gt, sc) ==
    IF aw.dec THEN Raise("TypeError")
    ELSE Ok((cq * COMPONENT_WEIGHTS.content_quality
             + aw.v * COMPONENT_WEIGHTS.author_weight
             + er * COMPONENT_WEIGHTS.engagement_rate
             + gt * COMPONENT_WEIGHTS.growth_trend
             + sc * COMPONENT_WEIGHTS.scarcity) \div 100)

\* The body of the try block of PotentialScorer.calculate:
\* [res |-> Ok([score, factors]) or Raise, cache |-> the author cache after]
PotentialBody(c, q, cache) ==
    LET cq == CalculateContentQuality(c)
        aw == CalculateAuthorWeight(c, q, cache)
        er == CalculateEngagementRate(c)
        gt == CalculateGrowthTrend(c)
        sc == CalculateScarcity(c, q)
    IN IF ~aw.res.ok THEN [res |-> aw.res, cache |-> aw.cache]
       ELSE IF ~er.ok THEN [res |-> er, cache |-> aw.cache]
       ELSE IF ~gt.ok THEN [res |-> gt, cache |-> aw.cache]
       ELSE IF ~sc.ok THEN [res |-> sc, cache |-> aw.cache]
       ELSE LET sum == WeightedSum(cq, aw.res.v, er.v, gt.v, sc.v)
            IN IF ~sum.ok THEN [res |-> sum, cache |-> aw.cache]
               ELSE [res |-> Ok([score |-> Clamp100(sum.v),
                                 factors |-> [content_quality |-> cq,
                                              author_weight |-> aw.res.v.v,
                                              engagement_rate |-> er.v,
                                              growth_trend |-> gt.v,
                                              scarcity |-> sc.v]]),
                     cache |-> aw.cache]

\* PotentialScorer.calculate: [result |-> ScoreResult, cache |-> the cache after]
PotentialCalculate(c, q, cache) ==
    LET b == PotentialBody(c, q, cache)
    IN [result |-> TryCalculate(b.res), cache |-> b.cache]

----------------------------------------------------------------------------
(* SpecCalc: calculate as a function of one content and the store's answers *)

LargeMetric == 100000

Metrics(v, l, r, c, b) ==
    [views |-> v, likes |-> l, reposts |-> r, comments |-> c, bookmarks |-> b]

ZeroMetrics == Metrics(0, 0, 0, 0, 0)

MetricsInputs ==
    { ZeroMetrics,
      Metrics(0, 100, 0, 0, 0),
      Metrics(1000, 50, 5, 10, 2),
      Metrics(50000, 10, 0, 0, 0),
      Metrics(LargeMetric, LargeMetric, LargeMetric, LargeMetric, LargeMetric),
      Metrics(0, BadMetric, 0, 0, 0),
      Metrics(HugeMetric, 5, 0, 0, 0),
      Metrics(0, HugeMetric, 0, 0, 0) }

\* a publish time FloatMaxExponent half lives after now
FarFuture == -(FloatMaxExponent * HALF_LIFE_HOURS)

\* [dated, hours]: no publish time, or published hours ago (in the future: < 0)
AgeInputs ==
    { [dated |-> FALSE, hours |-> 0] }
    \cup { [dated |-> TRUE, hours |-> h] : h \in {FarFuture, -24, 0, 24, 48, 120} }

PlatformInputs == {"x", "reddit", "rss", "xiaohongshu", "other"}

TextInputs ==
    { [textLen |-> 0, titleLen |-> 0, hasMedia |-> FALSE, hasHttp |-> FALSE],
      [textLen |-> 60, titleLen |-> 0, hasMedia |-> FALSE, hasHttp |-> FALSE],
      [textLen |-> 150, titleLen |-> 20, hasMedia |-> FALSE, hasHttp |-> TRUE],
      [textLen |-> 500, titleLen |-> 20, hasMedia |-> TRUE, hasHttp |-> TRUE],
      [textLen |-> 3000, titleLen |-> 5, hasMedia |-> TRUE, hasHttp |-> FALSE] }

EmptyCache == [k \in {} |-> Float(0)]

\* [authorId, cache, authorScores]
AuthorInputs ==
    { [authorId |-> "", cache |-> EmptyCache, authorScores |-> Ok(<<>>)] }
    \cup { [authorId |-> "a", cache |-> [k \in {<<"x", "a">>} |-> w],
            authorScores |-> Ok(<<>>)] : w \in {Float(5500), Decimal(6500)} }
    \cup { [authorId |-> "a", cache |-> EmptyCache, authorScores |-> a] :
              a \in { Ok(<<>>), Ok(<<6000, 7000>>), Ok(<<0>>), Ok(<<10000, 10000>>),
                      Raise("OperationalError") } }

\* [recent, position]: the answers to the two count queries of _calculate_scarcity
ScarcityInputs ==
    { [recent |-> Ok(0), position |-> Ok(0)],
      [recent |-> Ok(1), position |-> Ok(0)],
      [recent |-> Ok(3), position |-> Ok(2)],
      [recent |-> Raise("OperationalError"), position |-> Raise("OperationalError")] }

CalcContent(platform, m, age, t, authorId) ==
    [platform |-> platform, metrics |-> m, dated |-> age.dated, hours |-> age.hours,
     textLen |-> t.textLen, titleLen |-> t.titleLen, hasMedia |-> t.hasMedia,
     hasHttp |-> t.hasHttp, authorId |-> authorId]

NoText == [textLen |-> 0, titleLen |-> 0, hasMedia |-> FALSE, hasHttp |-> FALSE]
NoQuery == [authorScores |-> Ok(<<>>), recent |-> Ok(0), position |-> Ok(0)]

CalcInit ==
    /\ calcOut = NoResult
    /\ \/ \E p \in PlatformInputs, m \in MetricsInputs, age \in AgeInputs :
            calcIn = [which |-> "heat", c |-> CalcContent(p, m, age, NoText, ""),
                      q |-> NoQuery, cache |-> EmptyCache]
       \/ \E m \in MetricsInputs, age \in AgeInputs, t \in TextInputs,
             a \in AuthorInputs, s \in ScarcityInputs :
            calcIn = [which |-> "potential",
                      c |-> CalcContent("x", m, age, t, a.authorId),
                      q |-> [authorScores |-> a.authorScores, recent |-> s.recent,
                             position |-> s.position],
                      cache |-> a.cache]

CalcIdle ==
    /\ calcIn = [which |-> "none"]
    /\ calcOut = NoResult

\* a caller calls HeatScorer.calculate(content)
CalcHeat ==
    /\ calcIn.which = "heat"
    /\ calcOut = NoResult
    /\ calcOut' = HeatCalculate(calcIn.c)
    /\ UNCHANGED calcIn
    /\ UNCHANGED storeVars

\* a caller calls PotentialScorer.calculate(content)
CalcPotential ==
    /\ calcIn.which = "potential"
    /\ calcOut = NoResult
    /\ calcOut' = PotentialCalculate(calcIn.c, calcIn.q, calcIn.cache).result
    /\ UNCHANGED calcIn
    /\ UNCHANGED storeVars

CalcNext == CalcHeat \/ CalcPotential

----------------------------------------------------------------------------
(* The store and BaseScorer: score_content, score_batch, score_unprocessed *)

ScoreTypes == {"heat", "potential"}

\* What the environment does to one item of a call: nothing, or it makes the
\* first store query inside calculate fail ("lookup"), the query for the
\* existing Score fail ("query"), or the flush of commit() fail ("flush").
FaultKinds == {"none", "lookup", "query", "flush"}

NoFault == [at |-> 0, kind |-> "none"]

Ids(conts) == 1 .. Len(conts)

\* db.query(Score.score).join(Content).filter(same platform, same author_id,
\* Content.id != content.id).all(), in row order
AuthorScoresOf(conts, rows, cid) ==
    LET mine(r) == /\ conts[r.content_id].platform = conts[cid].platform
                   /\ conts[r.content_id].authorId = conts[cid].authorId
                   /\ r.content_id # cid
        sel == SelectSeq(rows, mine)
    IN [i \in 1 .. Len(sel) |-> sel[i].score]

\* count(Content.id) of the platform created since midnight
RecentCount(conts, cid) ==
    Cardinality({i \in Ids(conts) : /\ conts[i].platform = conts[cid].platform
                                    /\ conts[i].createdToday})

\* ... and created before the content (ids are handed out in creation order)
DailyPosition(conts, cid) ==
    Cardinality({i \in Ids(conts) : /\ conts[i].platform = conts[cid].platform
                                    /\ conts[i].createdToday
                                    /\ i < cid})

\* The store's answers to the queries of PotentialScorer.calculate.  A Session
\* whose transaction was lost (ok = FALSE) raises PendingRollbackError on any
\* SQL; an injected "lookup" fault makes the store raise OperationalError.
StoreAnswers(conts, rows, cid, ok, fault) ==
    IF ~ok
    THEN [authorScores |-> Raise("PendingRollbackError"),
          recent |-> Raise("PendingRollbackError"),
          position |-> Raise("PendingRollbackError")]
    ELSE IF fault = "lookup"
    THEN [authorScores |-> Raise("OperationalError"),
          recent |-> Raise("OperationalError"),
          position |-> Raise("OperationalError")]
    ELSE [authorScores |-> Ok(AuthorScoresOf(conts, rows, cid)),
          recent |-> Ok(RecentCount(conts, cid)),
          position |-> Ok(DailyPosition(conts, cid))]

\* db.query(Score).filter(content_id, score_type).first(): the row's index, or 0
ExistingScore(rows, cid, t) ==
    LET hits == {i \in 1 .. Len(rows) : rows[i].content_id = cid /\ rows[i].score_type = t}
    IN IF hits = {} THEN 0 ELSE CHOOSE i \in hits : \A j \in hits : i <= j

ScoreRow(cid, t, result) ==
    [content_id |-> cid, score_type |-> t, score |-> result.score,
     factors |-> result.factors]

\* UpsertScore without the look for an existing Score
UpsertAlwaysAdd(rows, cid, t, result) == Append(rows, ScoreRow(cid, t, result))

\* score_content, lines 58-80: update the existing Score or add a new one
UpsertScore(rows, cid, t, result) ==
    LET i == ExistingScore(rows, cid, t)
    IN IF i > 0 THEN [rows EXCEPT ![i] = ScoreRow(cid, t, result)]
       ELSE Append(rows, ScoreRow(cid, t, result))

\* UniqueConstraint("content_id", "score_type")
UniqueScores(rows) ==
    \A i, j \in 1 .. Len(rows) :
        (rows[i].content_id = rows[j].content_id /\ rows[i].score_type = rows[j].score_type)
            => i = j

\* result = self.calculate(content) in a session state st, line 53: what
\* calculate returned and the scorer's cache after it.  Reading an expired
\* content in a Session that is not usable raises inside calculate.
CalculateIn(conts, st, t, cid, fault) ==
    IF cid \in st.expired /\ ~st.usable
    THEN [result |-> TryCalculate(Raise("PendingRollbackError")), cache |-> st.cache]
    ELSE IF t = "heat"
    THEN [result |-> HeatCalculate(conts[cid]), cache |-> st.cache]
    ELSE PotentialCalculate(conts[cid],
            StoreAnswers(conts, st.scores, cid, st.usable, fault), st.cache)

\* score_content that marks the content processed before it looks at
\* result.success
StoreResultMarksFailed(conts, st, t, cid, fault, calc) ==
    LET usable1 == st.usable /\ calc.result.error # "OperationalError"
        st1 == [st EXCEPT !.usable = usable1, !.cache = calc.cache,
                          !.expired = IF st.usable THEN st.expired \ {cid}
                                      ELSE st.expired]
        rows2 == UpsertScore(st.scores, cid, t, calc.result)
    IN IF ~calc.result.success
       THEN [st |-> [st1 EXCEPT !.processed = st.processed \cup {cid}],
             out |-> "failed", result |-> calc.result]
       ELSE IF ~usable1 \/ fault = "query"
       \* the query for the existing Score raises
       THEN [st |-> [st1 EXCEPT !.usable = FALSE], out |-> "raised",
             result |-> calc.result]
       ELSE IF fault = "flush" \/ ~UniqueScores(rows2)
       \* commit() raises in its flush: the transaction is rolled back, every
       \* object of the Session is expired, the Session needs a rollback()
       THEN [st |-> [st1 EXCEPT !.usable = FALSE, !.expired = Ids(conts)],
             out |-> "raised", result |-> calc.result]
       ELSE [st |-> [st1 EXCEPT !.scores = rows2,
                                !.processed = st.processed \cup {cid},
                                !.expired = Ids(conts)],
             out |-> "written", result |-> calc.result]

\* score_content after calculate returned calc, lines 55-86
StoreResult(conts, st, t, cid, fault, calc) ==
    LET usable1 == st.usable /\ calc.result.error # "OperationalError"
        st1 == [st EXCEPT !.usable = usable1, !.cache = calc.cache,
                          !.expired = IF st.usable THEN st.expired \ {cid}
                                      ELSE st.expired]
        rows2 == UpsertScore(st.scores, cid, t, calc.result)
    IN IF ~calc.result.success
       THEN [st |-> st1, out |-> "failed", result |-> calc.result]
       ELSE IF ~usable1 \/ fault = "query"
       \* the query for the existing Score raises
       THEN [st |-> [st1 EXCEPT !.usable = FALSE], out |-> "raised",
             result |-> calc.result]
       ELSE IF fault = "flush" \/ ~UniqueScores(rows2)
       \* commit() raises in its flush: the transaction is rolled back, every
       \* object of the Session is expired, the Session needs a rollback()
       THEN [st |-> [st1 EXCEPT !.usable = FALSE, !.expired = Ids(conts)],
             out |-> "raised", result |-> calc.result]
       ELSE [st |-> [st1 EXCEPT !.scores = rows2,
                                !.processed = st.processed \cup {cid},
                                !.expired = Ids(conts)],
             out |-> "written", result |-> calc.result]

\* One call of score_content(content) for scorer t on content cid, in a
\* session state st = [scores, processed, usable, cache, expired]:
\* [st |-> the state after, out |-> "written" (a Score came back), "failed"
\* (None came back) or "raised" (an exception left score_content),
\* result |-> what calculate returned].
\* expired holds the contents whose attributes the Session has expired: reading
\* one emits a SELECT, which raises when the Session is not usable.
ScoreContentStep(conts, st, t, cid, fault) ==
    StoreResult(conts, st, t, cid, fault, CalculateIn(conts, st, t, cid, fault))

RECURSIVE BatchLoop(_, _, _, _, _, _, _)

\* The body of the loop of score_batch for item i, where score_content did
\* step.  The except clause prints content.id: on an expired content in a
\* Session that is not usable that read raises, and the exception leaves
\* score_batch.
BatchItem(conts, t, list, i, fault, acc, step) ==
    LET scored == step.out = "written"
        acc1 == [count |-> IF scored THEN acc.count + 1 ELSE acc.count,
                 attempted |-> Append(acc.attempted, list[i]),
                 written |-> IF scored THEN Append(acc.written, list[i])
                             ELSE acc.written]
        handlerRaises == /\ step.out = "raised"
                         /\ list[i] \in step.st.expired
                         /\ ~step.st.usable
    IN IF handlerRaises
       THEN [st |-> step.st, raised |-> TRUE, count |-> acc1.count,
             attempted |-> acc1.attempted, written |-> acc1.written]
       ELSE BatchLoop(conts, step.st, t, list, i + 1, fault, acc1)

\* The loop of score_batch from item i on; acc = [count, attempted, written]
BatchLoop(conts, st, t, list, i, fault, acc) ==
    IF i > Len(list)
    THEN [st |-> st, raised |-> FALSE, count |-> acc.count,
          attempted |-> acc.attempted, written |-> acc.written]
    ELSE BatchItem(conts, t, list, i, fault, acc,
                   ScoreContentStep(conts, st, t, list[i],
                                    IF fault.at = i THEN fault.kind ELSE "none"))

\* score_batch(contents) for scorer t; the caller hands in loaded objects
ScoreBatchRun(conts, st, t, list, fault) ==
    BatchLoop(conts, st, t, list, 1, fault,
              [count |-> 0, attempted |-> <<>>, written |-> <<>>])

MaxContents == 2
MaxBatch == 2

StoredContent(platform, authorId, m, hours, t, today, topics) ==
    [platform |-> platform, metrics |-> m, dated |-> TRUE, hours |-> hours,
     topics |-> topics,
     textLen |-> t.textLen, titleLen |-> t.titleLen, hasMedia |-> t.hasMedia,
     hasHttp |-> t.hasHttp, authorId |-> authorId, createdToday |-> today]

\* The Content rows the store is filled with, in creation order: yesterday's
\* item with an oversized view count, then a hot and a moderate item of one
\* author
ContentInputs ==
    << StoredContent("reddit", "b", Metrics(HugeMetric, 5, 0, 0, 0), 24, NoText, FALSE, {}),
       StoredContent("x", "a", Metrics(0, 100, 0, 0, 0), 0,
                     [textLen |-> 500, titleLen |-> 20, hasMedia |-> TRUE, hasHttp |-> TRUE],
                     TRUE, {"AI"}),
       StoredContent("x", "a", Metrics(1000, 50, 5, 10, 2), 24, NoText, TRUE, {"AI", "rust"}) >>

RECURSIVE SeqsUpTo(_, _)
\* the sequences over S of length <= n
SeqsUpTo(S, n) ==
    IF n = 0 THEN { <<>> }
    ELSE LET shorter == SeqsUpTo(S, n - 1)
         IN shorter \cup { Append(q, x) : q \in shorter, x \in S }

\* ids are handed out in creation order
CreationOrdered(pick) ==
    \A i, j \in 1 .. Len(pick) : i < j => pick[i] < pick[j]

\* the stores: up to MaxContents of the rows, in creation order
StoreInputs ==
    { [i \in 1 .. Len(pick) |-> ContentInputs[pick[i]]] :
        pick \in { q \in SeqsUpTo(1 .. Len(ContentInputs), MaxContents) :
                     q # <<>> /\ CreationOrdered(q) } }

NoOp == [kind |-> "none"]

\* the dates a brief is asked for, in days before today
Dates == {0, 1}

NoBrief == [kind |-> "none"]

\* no brief was generated yet, no content is briefed
BriefInit ==
    /\ briefs = [d \in Dates |-> NoBrief]
    /\ briefed = {}
    /\ generated = [d \in Dates |-> NoBrief]

\* the generate calls that run side by side
Passes == {1, 2}

\* no generate call is under way side by side with another
PassIdle == passes = [p \in Passes |-> [pc |-> "idle"]]

\* no KeyManager is in use
KeysIdle ==
    /\ keys = <<>>
    /\ now = 0

\* no fetcher has run
FetchIdle ==
    /\ logs = <<>>
    /\ lastFetchAt = {}

ToolsIdle == KeysIdle /\ FetchIdle

StoreInit ==
    /\ contents \in StoreInputs
    /\ processed = {}
    /\ scores = <<>>
    /\ usable = TRUE
    /\ authorCache = EmptyCache
    /\ lastOp = NoOp
    /\ fullRuns = {}
    /\ BriefInit
    /\ PassIdle
    /\ ToolsIdle

StoreIdle ==
    /\ contents = <<>>
    /\ processed = {}
    /\ scores = <<>>
    /\ usable = TRUE
    /\ authorCache = EmptyCache
    /\ lastOp = NoOp
    /\ fullRuns = {}
    /\ BriefInit
    /\ PassIdle

\* the faults the environment may inject into a call on list for scorer t
Faults(t, list) ==
    { NoFault } \cup
    { [at |-> i, kind |-> k] :
        i \in 1 .. Len(list),
        k \in IF t = "potential" THEN {"lookup", "query", "flush"} ELSE {"query", "flush"} }

\* the state a call of a scorer method starts in: the objects it is handed
\* are loaded
SessionOf(t) ==
    [scores |-> scores, processed |-> processed, usable |-> usable,
     cache |-> IF t = "potential" THEN authorCache ELSE EmptyCache, expired |-> {}]

\* the store, the Session and the scorer take the state st a call ended in
Commit(t, st) ==
    /\ scores' = st.scores
    /\ processed' = st.processed
    /\ usable' = st.usable
    /\ authorCache' = IF t = "potential" THEN st.cache ELSE authorCache

\* db = SessionLocal(); HeatScorer(db); PotentialScorer(db): a new Session and
\* new scorers on it
NewScorers ==
    /\ lastOp = NoOp
    /\ ~usable \/ authorCache # EmptyCache
    /\ usable' = TRUE
    /\ authorCache' = EmptyCache
    /\ lastOp' = NoOp
    /\ UNCHANGED <<contents, processed, scores, fullRuns>>
    /\ UNCHANGED <<calcVars, briefVars, passes, toolVars>>

\* the score of the Score of (cid, t), -1 when there is none
OldScore(rows, cid, t) ==
    IF ExistingScore(rows, cid, t) > 0 THEN rows[ExistingScore(rows, cid, t)].score
    ELSE -1

\* scorer.score_content(content), content loaded through the Session
ScoreContent(t, cid, fault) ==
    /\ lastOp = NoOp
    /\ usable
    /\ \E step \in {ScoreContentStep(contents, SessionOf(t), t, cid, fault.kind)} :
          /\ Commit(t, step.st)
          /\ lastOp' = [kind |-> "score_content", t |-> t, cid |-> cid,
                        fault |-> fault.kind, out |-> step.out,
                        score |-> step.result.score,
                        factors |-> step.result.factors,
                        old |-> OldScore(scores, cid, t)]
    /\ fullRuns' = fullRuns \cup {"other"}
    /\ UNCHANGED contents
    /\ UNCHANGED <<calcVars, briefVars, passes, toolVars>>

\* what a call of score_batch or score_unprocessed did and returned
BatchOp(kind, t, list, fault, run) ==
    [kind |-> kind, t |-> t, list |-> list, fault |-> fault, raised |-> run.raised,
     count |-> run.count, items |-> Len(list),
     attempted |-> Len(run.attempted), written |-> Len(run.written)]

\* scorer.score_batch(contents), the contents loaded through the Session
ScoreBatch(t, list, fault) ==
    /\ lastOp = NoOp
    /\ usable
    /\ \E run \in {ScoreBatchRun(contents, SessionOf(t), t, list, fault)} :
          /\ Commit(t, run.st)
          /\ lastOp' = BatchOp("score_batch", t, list, fault, run)
    /\ fullRuns' = fullRuns \cup {"other"}
    /\ UNCHANGED contents
    /\ UNCHANGED <<calcVars, briefVars, passes, toolVars>>

RECURSIVE Ascending(_)
\* the elements of a set of ids as a sequence, ascending
Ascending(S) ==
    IF S = {} THEN <<>>
    ELSE LET m == CHOOSE x \in S : \A y \in S : x <= y
         IN <<m>> \o Ascending(S \ {m})

\* db.query(Content).filter(Content.is_processed == False)[.limit(limit)].all():
\* the lists the store may answer with (a limited query has no ORDER BY);
\* limit = 0 stands for None
Unprocessed(limit) ==
    LET todo == Ids(contents) \ processed
    IN IF limit = 0 \/ Cardinality(todo) <= limit THEN { Ascending(todo) }
       ELSE { Ascending(S) : S \in { T \in SUBSET todo : Cardinality(T) = limit } }

\* scorer.score_unprocessed(limit) when the query for the contents raises
ScoreUnprocessedRaises(t) ==
    /\ lastOp = NoOp
    /\ ~usable
    /\ lastOp' = [kind |-> "score_unprocessed", t |-> t, list |-> <<>>,
                  fault |-> NoFault, raised |-> TRUE, count |-> 0, items |-> 0, attempted |-> 0,
                  written |-> 0]
    /\ fullRuns' = fullRuns \cup {"other"}
    /\ UNCHANGED <<contents, processed, scores, usable, authorCache>>
    /\ UNCHANGED <<calcVars, briefVars, passes, toolVars>>

\* scorer.score_unprocessed(limit)
ScoreUnprocessed(t, limit, list, fault) ==
    /\ lastOp = NoOp
    /\ usable
    /\ list \in Unprocessed(limit)
    /\ \E run \in {ScoreBatchRun(contents, SessionOf(t), t, list, fault)} :
          /\ Commit(t, run.st)
          /\ lastOp' = BatchOp("score_unprocessed", t, list, fault, run)
          /\ fullRuns' = IF limit = 0 /\ fault = NoFault /\ ~run.raised
                         THEN fullRuns \cup {t} ELSE fullRuns \cup {"other"}
    /\ UNCHANGED contents
    /\ UNCHANGED <<calcVars, briefVars, passes, toolVars>>

\* the call returns to its caller, which is then free to make the next call
Return ==
    /\ lastOp # NoOp
    /\ lastOp' = NoOp
    /\ UNCHANGED <<contents, processed, scores, usable, authorCache, fullRuns>>
    /\ UNCHANGED <<calcVars, briefVars, passes, toolVars>>

----------------------------------------------------------------------------
(* BriefGenerator: the selection of a brief's contents *)

HEAT_TOP_COUNT == 10
POTENTIAL_TOP_COUNT == 5
FEATURED_CAP == 15

\* what .scalar() gives when no row matches: None
NoScore == -1

\* db.query(Score.score).filter(content_id, score_type).scalar()
ScoreScalar(rows, cid, t) ==
    IF ExistingScore(rows, cid, t) > 0 THEN rows[ExistingScore(rows, cid, t)].score
    ELSE NoScore

\* the truth value of what .scalar() gave: None and Decimal("0.00") are false
Truthy(v) == v # NoScore /\ v # 0

\* x or 0
OrZero(v) == IF Truthy(v) THEN v ELSE 0

\* InsertDesc that puts the pair before the pairs of equal score
InsertBeforeTies(sorted, pair) ==
    LET before == SelectSeq(sorted, LAMBDA q : q[2] > pair[2])
    IN before \o <<pair>> \o SubSeq(sorted, Len(before) + 1, Len(sorted))

\* a pair put into a list sorted by score descending, behind the pairs of
\* equal score
InsertDesc(sorted, pair) ==
    LET before == SelectSeq(sorted, LAMBDA q : q[2] >= pair[2])
    IN before \o <<pair>> \o SubSeq(sorted, Len(before) + 1, Len(sorted))

RECURSIVE SortDesc(_)
\* pairs.sort(key=lambda x: x[1], reverse=True): a stable sort, pairs of equal
\* score keep the order they had
SortDesc(pairs) ==
    IF pairs = <<>> THEN <<>>
    ELSE InsertDesc(SortDesc(SubSeq(pairs, 1, Len(pairs) - 1)), pairs[Len(pairs)])

\* seq[:n]
Take(seq, n) == SubSeq(seq, 1, Min(n, Len(seq)))

\* [cid for cid, _ in pairs]
FirstOf(pairs) == [i \in 1 .. Len(pairs) |-> pairs[i][1]]

RECURSIVE HeatPairs(_, _)
\* the loop of _select_heat_top, lines 180-187
HeatPairs(rows, daily) ==
    IF daily = <<>> THEN <<>>
    ELSE LET cid == daily[Len(daily)]
             heat_score == ScoreScalar(rows, cid, "heat")
             rest == HeatPairs(rows, SubSeq(daily, 1, Len(daily) - 1))
         IN IF Truthy(heat_score) THEN Append(rest, <<cid, heat_score>>) ELSE rest

\* _select_heat_top(contents), daily = the ids of contents in iteration order
SelectHeatTop(rows, daily) ==
    FirstOf(Take(SortDesc(HeatPairs(rows, daily)), HEAT_TOP_COUNT))

\* IsCandidate with potential_score >= 70 and heat_score <= 30
IsCandidateInclusive(heat_score, potential_score) ==
    potential_score >= 7000 /\ heat_score <= 3000

\* potential_score > 70 and heat_score < 30
IsCandidate(heat_score, potential_score) ==
    potential_score > 7000 /\ heat_score < 3000

RECURSIVE PotentialPairs(_, _)
\* the loop of _select_potential, lines 199-212
PotentialPairs(rows, daily) ==
    IF daily = <<>> THEN <<>>
    ELSE LET cid == daily[Len(daily)]
             heat_score == OrZero(ScoreScalar(rows, cid, "heat"))
             potential_score == OrZero(ScoreScalar(rows, cid, "potential"))
             rest == PotentialPairs(rows, SubSeq(daily, 1, Len(daily) - 1))
         IN IF IsCandidate(heat_score, potential_score)
            THEN Append(rest, <<cid, potential_score>>) ELSE rest

\* _select_potential(contents)
SelectPotential(rows, daily) ==
    FirstOf(Take(SortDesc(PotentialPairs(rows, daily)), POTENTIAL_TOP_COUNT))

\* FromKeys that keeps every occurrence
KeepRepeats(ids) == ids

RECURSIVE FromKeys(_)
\* list(dict.fromkeys(ids)): the first occurrence of every id, in order
FromKeys(ids) ==
    IF ids = <<>> THEN <<>>
    ELSE LET front == FromKeys(SubSeq(ids, 1, Len(ids) - 1))
             last == ids[Len(ids)]
         IN IF \E i \in 1 .. Len(front) : front[i] = last THEN front
            ELSE Append(front, last)

\* _select_featured(heat_top_ids, potential_ids)
SelectFeatured(heat_top_ids, potential_ids) ==
    Take(FromKeys(heat_top_ids \o potential_ids), FEATURED_CAP)

----------------------------------------------------------------------------
(* BriefGenerator.generate *)

TOPICS_PER_CATEGORY == 3

\* TOPIC_CATEGORIES, the names in Latin letters
TOPIC_CATEGORIES == <<"AI", "keji", "touzi", "shenghuo", "yule", "sheji">>

\* the attributes of the class Content: the columns of models/content.py and
\* of models/base.py
ContentColumns ==
    {"id", "created_at", "updated_at", "source_id", "platform", "external_id",
     "title", "content", "author", "author_id", "url", "published_at",
     "raw_metrics", "media_urls", "is_processed", "is_briefed"}

\* the keyword arguments DailyBrief(...) accepts: its columns
BriefColumns ==
    {"id", "created_at", "updated_at", "brief_date", "title", "stats",
     "total_contents", "featured_ids", "heat_top_ids", "potential_ids",
     "markdown_content", "html_content", "telegram_sent", "email_sent", "sent_at"}

\* the day a content was published on, in days before today
PublishedDay(c) == c.hours \div 24

\* _get_daily_contents(start_dt, end_dt): the ids of the contents of day d.
\* Building the filter reads the class attribute Content.is_deleted.
GetDailyContents(conts, d) ==
    IF "is_deleted" \notin ContentColumns THEN Raise("AttributeError")
    ELSE Ok({ i \in Ids(conts) : PublishedDay(conts[i]) = d })

\* the ids of a set, descending
Descending(S) == [i \in 1 .. Cardinality(S) |-> Ascending(S)[Cardinality(S) + 1 - i]]

\* the orders in which a query without ORDER BY may hand its rows over
RowOrders(S) == { Ascending(S), Descending(S) }

\* d.get(k, 0) of a dict d
DictGet(d, k) == IF k \in DOMAIN d THEN d[k] ELSE 0

\* d[k] = v on a dict d
DictSet(d, k, v) == [x \in DOMAIN d \cup {k} |-> IF x = k THEN v ELSE d[x]]

\* platforms[platform] = 1 in place of the increment
CountOnce(d, k) == DictSet(d, k, 1)

\* platforms[platform] = platforms.get(platform, 0) + 1
CountUp(d, k) == DictSet(d, k, DictGet(d, k) + 1)

RECURSIVE CountPlatforms(_, _, _, _)
\* lines 152-156: the loop over the contents from item i on
CountPlatforms(conts, daily, i, platforms) ==
    IF i > Len(daily) THEN platforms
    ELSE CountPlatforms(conts, daily, i + 1,
                        CountUp(platforms, conts[daily[i]].platform))

RECURSIVE CountTags(_, _)
\* lines 165-167: the loop over the topic tags of one content
CountTags(names, topics) ==
    IF names = {} THEN topics
    ELSE LET n == CHOOSE x \in names : TRUE
         IN CountTags(names \ {n}, CountUp(topics, n))

RECURSIVE CountTopics(_, _, _, _)
\* lines 159-167: the loop over the contents from item i on; the query of
\* lines 161-164 answers with the content's tags of the category "topic"
CountTopics(conts, daily, i, topics) ==
    IF i > Len(daily) THEN topics
    ELSE CountTopics(conts, daily, i + 1,
                     CountTags(conts[daily[i]].topics, topics))

\* _calculate_stats(contents, brief_date)
CalculateStats(conts, daily, d) ==
    IF daily = <<>>
    THEN [total |-> 0, platforms |-> <<>>, topics |-> <<>>]
    ELSE [total |-> Len(daily),
          platforms |-> CountPlatforms(conts, daily, 1, <<>>),
          topics |-> CountTopics(conts, daily, 1, <<>>),
          date |-> d]

\* the contents that carry the tag of a topic
Tagged(conts, topic) == { i \in Ids(conts) : topic \in conts[i].topics }

\* query(ContentTag.content_id).filter(tag_id).limit(n).all(): any n of the
\* rows, in any order
LimitedLists(S, n) ==
    { q \in SeqsUpTo(S, n) :
        /\ Len(q) = Min(n, Cardinality(S))
        /\ \A i, j \in 1 .. Len(q) : q[i] = q[j] => i = j }

\* the topics of TOPIC_CATEGORIES that have a Tag (a Tag exists once a content
\* carries it)
PresentTopics(conts) ==
    { TOPIC_CATEGORIES[k] : k \in { j \in 1 .. Len(TOPIC_CATEGORIES) :
                                      Tagged(conts, TOPIC_CATEGORIES[j]) # {} } }

\* _get_topic_breakdown(contents): the dicts it may return
TopicBreakdowns(conts) ==
    { f \in [PresentTopics(conts) ->
                UNION { LimitedLists(Tagged(conts, t), TOPICS_PER_CATEGORY) :
                          t \in PresentTopics(conts) }] :
        \A t \in PresentTopics(conts) :
            f[t] \in LimitedLists(Tagged(conts, t), TOPICS_PER_CATEGORY) }

\* what generate hands back with the brief and shows in it
BriefOut(stats, heat_top, potential, featured, breakdown) ==
    [kind |-> "brief", stats |-> stats, heat_top |-> heat_top,
     potential_top |-> potential, featured |-> featured,
     topic_breakdown |-> breakdown]

\* the titles generate is called with; "" stands for None
Titles == {"", "digest"}

\* lines 51-52: the title given, or the title made from the date
BriefTitle(d, title) == IF title = "" THEN <<"daily brief", d>> ELSE <<title>>

\* lines 91-113: the DailyBrief of date d after generate wrote out into it;
\* old is the record found for the date, or NoBrief.  A new record takes the
\* defaults of its delivery columns, an existing one keeps them.
BriefRow(d, title, out, old) ==
    [kind |-> "brief", brief_date |-> d, title |-> BriefTitle(d, title),
     stats |-> out.stats, total_contents |-> out.stats.total,
     featured_ids |-> out.featured, heat_top_ids |-> out.heat_top,
     potential_ids |-> out.potential_top,
     telegram_sent |-> IF old = NoBrief THEN FALSE ELSE old.telegram_sent,
     email_sent |-> IF old = NoBrief THEN FALSE ELSE old.email_sent,
     sent_at |-> IF old = NoBrief THEN "none" ELSE old.sent_at]

\* what a call of generate did and returned
GenerateOp(d, title, raised, exc, out) ==
    [kind |-> "generate", date |-> d, title |-> title, raised |-> raised,
     exc |-> exc, out |-> out, prev |-> generated[d], before |-> briefs[d],
     briefedBefore |-> briefed]

\* generate raises exc: nothing was added, nothing is committed
GenerateRaises(d, title, exc) ==
    /\ lastOp' = GenerateOp(d, title, TRUE, exc, NoBrief)
    /\ UNCHANGED briefVars

\* lines 91-122: the brief of date d is updated or added, the featured
\* contents are marked and the session commits
WriteBrief(d, title, out) ==
    /\ briefs' = [briefs EXCEPT ![d] = BriefRow(d, title, out, briefs[d])]
    /\ briefed' = briefed \cup { out.featured[i] : i \in 1 .. Len(out.featured) }
    /\ generated' = [generated EXCEPT ![d] =
                       [kind |-> "generated", scores |-> scores, out |-> out]]

\* generate from line 55 on, for the day's contents in the order daily and the
\* topic breakdown the store answered with.  The rendering of the markdown and
\* the HTML shows these values and is left out.
GenerateBrief(d, title, daily, breakdown) ==
    \E out \in { BriefOut(CalculateStats(contents, daily, d),
                          SelectHeatTop(scores, daily),
                          SelectPotential(scores, daily),
                          SelectFeatured(SelectHeatTop(scores, daily),
                                         SelectPotential(scores, daily)),
                          breakdown) } :
       IF briefs[d] = NoBrief /\ "topic_breakdown" \notin BriefColumns
       \* DailyBrief(..., topic_breakdown=...) is no keyword of the constructor
       THEN GenerateRaises(d, title, "TypeError")
       ELSE /\ WriteBrief(d, title, out)
            /\ lastOp' = GenerateOp(d, title, FALSE, "", out)

\* BriefGenerator(db).generate(brief_date, title) for the date d days before
\* today
Generate(d, title) ==
    /\ lastOp = NoOp
    /\ \E got \in { GetDailyContents(contents, d) } :
          IF ~got.ok THEN GenerateRaises(d, title, got.exc)
          ELSE \E daily \in RowOrders(got.v), breakdown \in TopicBreakdowns(contents) :
                  GenerateBrief(d, title, daily, breakdown)
    /\ UNCHANGED <<contents, processed, scores, usable, authorCache, fullRuns>>
    /\ UNCHANGED <<calcVars, passes, toolVars>>

----------------------------------------------------------------------------
(* BriefPublisher: publish_telegram, publish_email, publish_all *)

\* the environment variables the publisher reads: set (and not empty) or not
EnvInputs ==
    [bot_token : BOOLEAN, chat_id : BOOLEAN, email_to : BOOLEAN,
     gog_account : BOOLEAN]

\* requests.post: status 200, another status, or an exception
TelegramSends == {"200", "status", "exception"}

\* subprocess.run: return code 0, another return code, or an exception
EmailSends == {"0", "nonzero", "TimeoutExpired", "FileNotFoundError", "exception"}

\* self.db.commit(): it goes through, or its flush raises
CommitOutcomes == {"ok", "flush"}

\* brief.<flag> = True; brief.sent_at = brief.sent_at or datetime.utcnow()
MarkSent(brief, flag) ==
    [brief EXCEPT ![flag] = TRUE,
                  !.sent_at = IF @ = "none" THEN "now" ELSE @]

\* what a publish call gave: the value returned, the row of the brief in the
\* store, whether the session can still be used, whether the message was
\* handed to the channel (attempted) and whether the channel took it (sent)
Published(ret, brief, sessionOk, attempted, sent) ==
    [ret |-> ret, brief |-> brief, usable |-> sessionOk,
     attempted |-> attempted, sent |-> sent]

\* lines 45-58 and 113-144 after the message was built: the send with the
\* outcome ok or not, then the flag and the commit
SendAndMark(brief, flag, ok, commit) ==
    IF ~ok THEN Published(FALSE, brief, TRUE, TRUE, FALSE)
    ELSE IF commit = "flush"
    \* the commit raises, the except clause returns False: the row is as it
    \* was, the session needs a rollback() and the brief is expired
    THEN Published(FALSE, brief, FALSE, TRUE, TRUE)
    ELSE Published(TRUE, MarkSent(brief, flag), TRUE, TRUE, TRUE)

\* publish_telegram(brief) in a session that is usable or not.  A session
\* that is not usable raises when _format_telegram_message reads the brief.
PublishTelegramRun(brief, sessionOk, env, send, commit) ==
    IF ~env.bot_token \/ ~env.chat_id
    THEN Published(FALSE, brief, sessionOk, FALSE, FALSE)
    ELSE IF ~sessionOk THEN Published(FALSE, brief, FALSE, FALSE, FALSE)
    ELSE SendAndMark(brief, "telegram_sent", send = "200", commit)

\* publish_email(brief)
PublishEmailRun(brief, sessionOk, env, send, commit) ==
    IF ~env.email_to \/ ~env.gog_account
    THEN Published(FALSE, brief, sessionOk, FALSE, FALSE)
    ELSE IF ~sessionOk THEN Published(FALSE, brief, FALSE, FALSE, FALSE)
    ELSE SendAndMark(brief, "email_sent", send = "0", commit)

\* publish_all(brief): the results dict and what the two calls gave; a
\* channel that is not configured is left out (called = FALSE)
PublishAllRun(brief, sessionOk, env, sends, commits) ==
    LET skip == Published(FALSE, brief, sessionOk, FALSE, FALSE)
        tg == IF env.bot_token
              THEN PublishTelegramRun(brief, sessionOk, env, sends.telegram,
                                      commits.telegram)
              ELSE skip
        skip2 == Published(FALSE, tg.brief, tg.usable, FALSE, FALSE)
        em == IF env.gog_account
              THEN PublishEmailRun(tg.brief, tg.usable, env, sends.email,
                                   commits.email)
              ELSE skip2
    IN [telegram |-> [called |-> env.bot_token, run |-> tg],
        email |-> [called |-> env.gog_account, run |-> em],
        brief |-> em.brief, usable |-> em.usable]

\* the date of the brief the publisher is handed
Today == 0

\* the delivery columns of a brief that was not sent, sent by one channel, or
\* sent by both
DeliveryInputs ==
    { [telegram_sent |-> FALSE, email_sent |-> FALSE, sent_at |-> "none"],
      [telegram_sent |-> TRUE, email_sent |-> FALSE, sent_at |-> "earlier"],
      [telegram_sent |-> FALSE, email_sent |-> TRUE, sent_at |-> "earlier"],
      [telegram_sent |-> TRUE, email_sent |-> TRUE, sent_at |-> "earlier"] }

\* a DailyBrief of today with the delivery columns f
BriefInput(f) ==
    [BriefRow(Today, "", BriefOut(CalculateStats(<<>>, <<>>, Today), <<>>, <<>>,
                                  <<>>, <<>>), NoBrief)
       EXCEPT !.telegram_sent = f.telegram_sent, !.email_sent = f.email_sent,
              !.sent_at = f.sent_at]

\* a store with a brief for today, and a publisher on a fresh session
PublishInit ==
    /\ contents = <<>>
    /\ processed = {}
    /\ scores = <<>>
    /\ usable = TRUE
    /\ authorCache = EmptyCache
    /\ lastOp = NoOp
    /\ fullRuns = {}
    /\ \E f \in DeliveryInputs :
          briefs = [d \in Dates |-> IF d = Today THEN BriefInput(f) ELSE NoBrief]
    /\ briefed = {}
    /\ generated = [d \in Dates |-> NoBrief]
    /\ PassIdle
    /\ ToolsIdle
    /\ CalcIdle

\* what a call of the publisher did and returned
PublishOp(kind, env, send, commit, run) ==
    [kind |-> kind, env |-> env, send |-> send, commit |-> commit,
     ret |-> run.ret, attempted |-> run.attempted, sent |-> run.sent,
     before |-> briefs[Today]]

\* the store and the session after a publish call
PublishEffect(run) ==
    /\ briefs' = [briefs EXCEPT ![Today] = run.brief]
    /\ usable' = run.usable
    /\ UNCHANGED <<contents, processed, scores, authorCache, fullRuns, briefed,
                   generated, passes, toolVars>>
    /\ UNCHANGED calcVars

PublishTelegram(env, send, commit) ==
    /\ lastOp = NoOp
    /\ \E run \in { PublishTelegramRun(briefs[Today], usable, env, send, commit) } :
          /\ lastOp' = PublishOp("publish_telegram", env, send, commit, run)
          /\ PublishEffect(run)

PublishEmail(env, send, commit) ==
    /\ lastOp = NoOp
    /\ \E run \in { PublishEmailRun(briefs[Today], usable, env, send, commit) } :
          /\ lastOp' = PublishOp("publish_email", env, send, commit, run)
          /\ PublishEffect(run)

PublishAll(env, sends, commits) ==
    /\ lastOp = NoOp
    /\ \E run \in { PublishAllRun(briefs[Today], usable, env, sends, commits) } :
          /\ lastOp' = [kind |-> "publish_all", env |-> env, send |-> sends,
                        commit |-> commits,
                        telegram |-> [called |-> run.telegram.called,
                                      ret |-> run.telegram.run.ret,
                                      attempted |-> run.telegram.run.attempted,
                                      sent |-> run.telegram.run.sent],
                        email |-> [called |-> run.email.called,
                                   ret |-> run.email.run.ret,
                                   attempted |-> run.email.run.attempted,
                                   sent |-> run.email.run.sent],
                        before |-> briefs[Today]]
          /\ PublishEffect(run)

\* the caller has the result; a later call may come on a new session
PublishReturn ==
    /\ lastOp # NoOp
    /\ lastOp' = NoOp
    /\ usable' \in {usable, TRUE}
    /\ UNCHANGED <<contents, processed, scores, authorCache, fullRuns, briefVars,
                   passes, toolVars>>
    /\ UNCHANGED calcVars

PublishNext ==
    \/ \E env \in EnvInputs, send \in TelegramSends, commit \in CommitOutcomes :
          PublishTelegram(env, send, commit)
    \/ \E env \in EnvInputs, send \in EmailSends, commit \in CommitOutcomes :
          PublishEmail(env, send, commit)
    \/ \E env \in EnvInputs,
          sends \in [telegram : TelegramSends, email : EmailSends],
          commits \in [telegram : CommitOutcomes, email : CommitOutcomes] :
          PublishAll(env, sends, commits)
    \/ PublishReturn

SpecPublish == PublishInit /\ [][PublishNext]_vars

----------------------------------------------------------------------------
(* TaskScheduler: the send_daily_brief job *)

\* yesterday.date() of generate_daily_brief, in days before today
Yesterday == 1

\* what a run of send_daily_brief did: found says whether the first query
\* gave a brief for today; the outcome is "published" (publish_all was called
\* on a brief), "not_found" (the 'Failed to generate or find brief' branch) or
\* "raised" (an exception left the job)
SendOp(found, outcome, exc) ==
    [kind |-> "send_daily_brief", found |-> found, outcome |-> outcome,
     exc |-> exc]

\* lines 150-153: publish_all on the brief of today, on the job's session
SendPublishes(found) ==
    \E env \in EnvInputs,
       sends \in [telegram : TelegramSends, email : EmailSends],
       commits \in [telegram : CommitOutcomes, email : CommitOutcomes] :
       /\ briefs' = [briefs EXCEPT ![Today] =
                       PublishAllRun(briefs[Today], TRUE, env, sends, commits).brief]
       /\ lastOp' = SendOp(found, "published", "")
       /\ UNCHANGED <<briefed, generated>>

\* line 147, generate_daily_brief: generate(brief_date=yesterday.date()) on a
\* session of its own; lines 148-155: the query for today's brief again
SendGenerates ==
    \E got \in { GetDailyContents(contents, Yesterday) } :
       IF ~got.ok
       THEN /\ lastOp' = SendOp(FALSE, "raised", got.exc)
            /\ UNCHANGED briefVars
       ELSE IF briefs[Yesterday] = NoBrief /\ "topic_breakdown" \notin BriefColumns
       THEN /\ lastOp' = SendOp(FALSE, "raised", "TypeError")
            /\ UNCHANGED briefVars
       ELSE \E daily \in RowOrders(got.v), breakdown \in TopicBreakdowns(contents) :
               \E heat \in { SelectHeatTop(scores, daily) },
                  potential \in { SelectPotential(scores, daily) } :
                  /\ WriteBrief(Yesterday, "",
                                BriefOut(CalculateStats(contents, daily, Yesterday),
                                         heat, potential,
                                         SelectFeatured(heat, potential), breakdown))
                  \* the brief written is yesterday's: today has none
                  /\ lastOp' = SendOp(FALSE, "not_found", "")

\* TaskScheduler.send_daily_brief()
SendDailyBrief ==
    /\ lastOp = NoOp
    /\ IF briefs[Today] # NoBrief THEN SendPublishes(TRUE) ELSE SendGenerates
    /\ UNCHANGED <<contents, processed, scores, usable, authorCache, fullRuns>>
    /\ UNCHANGED <<calcVars, passes, toolVars>>

StoreNext ==
    \/ NewScorers
    \/ Return
    \/ \E t \in ScoreTypes, cid \in Ids(contents) :
          \E f \in Faults(t, <<cid>>) : ScoreContent(t, cid, f)
    \/ \E t \in ScoreTypes, list \in SeqsUpTo(Ids(contents), MaxBatch) :
          \E f \in Faults(t, list) : ScoreBatch(t, list, f)
    \/ \E t \in ScoreTypes : ScoreUnprocessedRaises(t)
    \/ \E t \in ScoreTypes, limit \in {0, 1} :
          \E list \in Unprocessed(limit) :
             \E f \in Faults(t, list) : ScoreUnprocessed(t, limit, list, f)
    \/ \E d \in Dates, title \in Titles : Generate(d, title)
    \/ SendDailyBrief

Init == StoreInit /\ CalcIdle

Next == StoreNext

Spec == Init /\ [][Next]_vars

----------------------------------------------------------------------------
\* SpecPasses: two calls of generate for the same date side by side, each with
\* a session of its own (get_db), interleaved at the statements that reach the
\* database: the reads of lines 55-63, the lookup of lines 87-89 and the commit
\* of line 121.  The sessions do not flush before a query (autoflush=False).

\* a call of generate(d, title) that has not started
NewPass(d, title) ==
    [pc |-> "start", date |-> d, title |-> title, out |-> NoBrief,
     found |-> NoBrief, exc |-> ""]

\* the flush of a changed DailyBrief: the UPDATE sets the columns whose value
\* differs from the loaded one, on the row as it is now
UpdateRow(current, found, new) ==
    [col \in DOMAIN new |-> IF new[col] # found[col] THEN new[col] ELSE current[col]]

\* pass p raises exc and ends; its session is dropped with what it held
PassRaises(p, exc) ==
    /\ passes' = [passes EXCEPT ![p].pc = "raised", ![p].exc = exc]
    /\ UNCHANGED <<briefs, briefed>>

\* lines 55-85: the day's contents are read, the selection and the renderings
\* are made
PassSelect(p) ==
    \E got \in { GetDailyContents(contents, passes[p].date) } :
       IF ~got.ok THEN PassRaises(p, got.exc)
       ELSE \E daily \in RowOrders(got.v), breakdown \in TopicBreakdowns(contents) :
               \E heat \in { SelectHeatTop(scores, daily) },
                  potential \in { SelectPotential(scores, daily) } :
                  /\ passes' = [passes EXCEPT
                                  ![p].pc = "selected",
                                  ![p].out = BriefOut(CalculateStats(contents, daily,
                                                                     passes[p].date),
                                                      heat, potential,
                                                      SelectFeatured(heat, potential),
                                                      breakdown)]
                  /\ UNCHANGED <<briefs, briefed>>

\* lines 87-113: the DailyBrief of the date is looked up; the one found is
\* changed in the session, or a new one is constructed and added to it
PassLookup(p) ==
    \E found \in { briefs[passes[p].date] } :
       IF found = NoBrief /\ "topic_breakdown" \notin BriefColumns
       THEN PassRaises(p, "TypeError")
       ELSE /\ passes' = [passes EXCEPT ![p].pc = "pending", ![p].found = found]
            /\ UNCHANGED <<briefs, briefed>>

\* lines 116-121: the featured contents are marked and the session commits.
\* The INSERT of a second row for the date breaks the unique brief_date.
PassCommit(p) ==
    \E d \in { passes[p].date }, found \in { passes[p].found } :
       IF found = NoBrief /\ briefs[d] # NoBrief
       THEN PassRaises(p, "IntegrityError")
       ELSE \E new \in { BriefRow(d, passes[p].title, passes[p].out, found) } :
               /\ briefs' = [briefs EXCEPT ![d] =
                               IF found = NoBrief THEN new
                               ELSE UpdateRow(briefs[d], found, new)]
               /\ briefed' = briefed \cup { passes[p].out.featured[i] :
                                               i \in 1 .. Len(passes[p].out.featured) }
               /\ passes' = [passes EXCEPT ![p].pc = "done"]

\* pass p runs up to its next statement that reaches the database
GeneratePass(p) ==
    /\ passes[p].pc \in {"start", "selected", "pending"}
    /\ IF passes[p].pc = "start" THEN PassSelect(p)
       ELSE IF passes[p].pc = "selected" THEN PassLookup(p)
       ELSE PassCommit(p)
    /\ UNCHANGED <<contents, processed, scores, usable, authorCache, lastOp,
                   fullRuns, generated>>
    /\ UNCHANGED <<calcVars, toolVars>>

\* a store, and two calls of generate for the same date about to start
InitPasses ==
    /\ contents \in StoreInputs
    /\ processed = {}
    /\ scores = <<>>
    /\ usable = TRUE
    /\ authorCache = EmptyCache
    /\ lastOp = NoOp
    /\ fullRuns = {}
    /\ BriefInit
    /\ CalcIdle
    /\ ToolsIdle
    /\ \E d \in Dates, titles \in [Passes -> Titles] :
          passes = [p \in Passes |-> NewPass(d, titles[p])]

PassNext == \E p \in Passes : GeneratePass(p)

SpecPasses == InitPasses /\ [][PassNext]_vars

----------------------------------------------------------------------------
\* SpecStats: _calculate_stats over the contents of a day.

MaxStatContents == 3

\* the contents the statistics are made of: two platforms, none, one or two
\* topic tags, published today or yesterday
StatContents ==
    { StoredContent(p, "a", Metrics(0, 0, 0, 0, 0), h, NoText, TRUE, topics) :
        p \in {"x", "reddit"}, h \in {0, 24},
        topics \in {{}, {"AI"}, {"AI", "keji"}} }

StatsInit ==
    /\ contents \in SeqsUpTo(StatContents, MaxStatContents)
    /\ processed = {}
    /\ scores = <<>>
    /\ usable = TRUE
    /\ authorCache = EmptyCache
    /\ lastOp = NoOp
    /\ fullRuns = {}
    /\ BriefInit
    /\ PassIdle
    /\ ToolsIdle
    /\ CalcIdle

\* stats = self._calculate_stats(contents, brief_date), line 56, on the
\* contents of day d in the order the query handed them over
Stats(d, daily) ==
    /\ lastOp = NoOp
    /\ lastOp' = [kind |-> "stats", date |-> d, daily |-> daily,
                  stats |-> CalculateStats(contents, daily, d)]
    /\ UNCHANGED <<contents, processed, scores, usable, authorCache, fullRuns>>
    /\ UNCHANGED <<calcVars, briefVars, passes, toolVars>>

StatsNext ==
    \E d \in Dates :
       \E daily \in RowOrders({ i \in Ids(contents) : PublishedDay(contents[i]) = d }) :
          Stats(d, daily)

SpecStats == StatsInit /\ [][StatsNext]_vars

----------------------------------------------------------------------------
\* SpecSelect: the selection over snapshots of a day's contents and scores.
\* A snapshot is a sequence of [heat, potential], the scores of the contents in
\* id order, NoScore where the content has no Score of the type.

MaxSnapshot == 2
MinDaily == 11
MaxDaily == 24

HeatPalette == <<NoScore, 0, 1, 2999, 3000, 5000, 10000>>
PotentialPalette == <<NoScore, 0, 7000, 7001, 10000>>

\* every snapshot of up to MaxSnapshot contents over the palettes
SmallSnapshots ==
    SeqsUpTo({ [heat |-> HeatPalette[h], potential |-> PotentialPalette[q]] :
                 h \in 1 .. Len(HeatPalette), q \in 1 .. Len(PotentialPalette) },
             MaxSnapshot)

\* n contents whose scores run through the palettes from the offsets k and m
LargeSnapshot(n, k, m) ==
    [i \in 1 .. n |->
        [heat |-> HeatPalette[((i + k) % Len(HeatPalette)) + 1],
         potential |-> PotentialPalette[((i + m) % Len(PotentialPalette)) + 1]]]

\* snapshots large enough for every cut of the selection to take place
LargeSnapshots ==
    { LargeSnapshot(n, k, m) : n \in MinDaily .. MaxDaily,
                               k \in 1 .. Len(HeatPalette),
                               m \in 1 .. Len(PotentialPalette) }

SnapshotInputs == SmallSnapshots \cup LargeSnapshots

\* a content of the day; the selection reads only its id
SnapshotContent == StoredContent("x", "a", ZeroMetrics, 0, NoText, TRUE, {})

\* the Score row a snapshot holds for content cid and type t
SnapshotRow(cid, t, v) ==
    IF v = NoScore THEN <<>>
    ELSE << [content_id |-> cid, score_type |-> t, score |-> v,
             factors |-> [snapshot |-> TRUE]] >>

RECURSIVE SnapshotRows(_)
\* the scores table of a snapshot
SnapshotRows(snap) ==
    IF snap = <<>> THEN <<>>
    ELSE SnapshotRows(SubSeq(snap, 1, Len(snap) - 1))
         \o SnapshotRow(Len(snap), "heat", snap[Len(snap)].heat)
         \o SnapshotRow(Len(snap), "potential", snap[Len(snap)].potential)

SelectInit ==
    /\ \E snap \in SnapshotInputs :
          /\ contents = [i \in 1 .. Len(snap) |-> SnapshotContent]
          /\ scores = SnapshotRows(snap)
    /\ processed = {}
    /\ usable = TRUE
    /\ authorCache = EmptyCache
    /\ lastOp = NoOp
    /\ fullRuns = {}
    /\ BriefInit
    /\ PassIdle
    /\ ToolsIdle
    /\ CalcIdle

\* the orders in which the query for the day's contents may hand them over
DailyOrders == RowOrders(Ids(contents))

\* generate, lines 58-60: the selection over the day's contents
Select(daily) ==
    /\ lastOp = NoOp
    /\ \E heat_top \in { SelectHeatTop(scores, daily) } :
       \E potential \in { SelectPotential(scores, daily) } :
          lastOp' = [kind |-> "select", daily |-> daily,
                     heat_top |-> heat_top, potential_top |-> potential,
                     featured |-> SelectFeatured(heat_top, potential)]
    /\ UNCHANGED <<contents, processed, scores, usable, authorCache, fullRuns>>
    /\ UNCHANGED <<calcVars, briefVars, passes, toolVars>>

SelectNext == \E daily \in DailyOrders : Select(daily)

SpecSelect == SelectInit /\ [][SelectNext]_vars

----------------------------------------------------------------------------
(* scripts/key_manager.py: KeyManager *)

MaxKeys == 2
MaxNow == 7
MaxErrors == 4

\* self.data.get("cooldown_minutes", 5)
cooldown_minutes == 5

\* the error count from which get_active_key puts a key into cooldown
ErrorLimit == 3

KeyValues == <<"k1", "k2">>

\* a key as the keys file first holds it.  cooldown_until is {} for None and
\* {t} for the time t; last_used and the key's id decide nothing and are left
\* out.
FreshKey(v) ==
    [value |-> v, status |-> "active", error_count |-> 0, cooldown_until |-> {}]

\* key.get("cooldown_until") is set and datetime.now() < cooldown
InCooldown(key, t) == \E cooldown \in key.cooldown_until : t < cooldown

\* the reset of get_active_key when the loop returned nothing
ResetKey(key) ==
    [key EXCEPT !.status = "active", !.cooldown_until = {}, !.error_count = 0]

\* the for loop of get_active_key from index i on, then the reset: the keys it
\* leaves and the value it returns ("None" for None)
RECURSIVE TryKeys(_, _, _)
TryKeys(ks, i, t) ==
    IF i > Len(ks)
    THEN [keys |-> [j \in 1..Len(ks) |-> ResetKey(ks[j])],
          ret |-> IF Len(ks) > 0 THEN ks[1].value ELSE "None"]
    ELSE IF InCooldown(ks[i], t)
    THEN TryKeys(ks, i + 1, t)
    ELSE LET key == IF ks[i].cooldown_until # {}
                    THEN [ks[i] EXCEPT !.status = "active", !.cooldown_until = {}]
                    ELSE ks[i]
         IN  IF key.error_count >= ErrorLimit
             THEN TryKeys([ks EXCEPT ![i] = [key EXCEPT !.status = "cooling",
                                  !.cooldown_until = {t + cooldown_minutes}]],
                          i + 1, t)
             ELSE [keys |-> [ks EXCEPT ![i] = key], ret |-> key.value]

\* the index of the first key with the value, 0 when there is none
RECURSIVE IndexOfKey(_, _, _)
IndexOfKey(ks, v, i) ==
    IF i > Len(ks) THEN 0
    ELSE IF ks[i].value = v THEN i
    ELSE IndexOfKey(ks, v, i + 1)

\* the body of report_error on the key it found
ErrorKey(key, error_type, t) ==
    IF error_type = "429"
    THEN [key EXCEPT !.error_count = @ + 1, !.status = "cooling",
                     !.cooldown_until = {t + cooldown_minutes}]
    ELSE [key EXCEPT !.error_count = @ + 1]

\* the body of report_success on the key it found
SuccessKey(key) == [key EXCEPT !.error_count = 0, !.status = "active"]

\* a KeyManager over a keys file of fresh keys; nothing else is in use
KeysInit ==
    /\ CalcIdle
    /\ StoreIdle
    /\ FetchIdle
    /\ now = 0
    /\ \E n \in 1..MaxKeys : keys = [i \in 1..n |-> FreshKey(KeyValues[i])]

KeyStep(ks, t, op) ==
    /\ keys' = ks
    /\ now' = t
    /\ lastOp' = op
    /\ UNCHANGED <<calcVars, contents, processed, scores, usable, authorCache,
                   fullRuns, briefVars, passes, logs, lastFetchAt>>

GetActiveKey ==
    /\ lastOp = NoOp
    /\ \E out \in {TryKeys(keys, 1, now)} :
          KeyStep(out.keys, now,
                  [kind |-> "get_active_key", before |-> keys, ret |-> out.ret])

ReportError ==
    /\ lastOp = NoOp
    /\ \E v \in {KeyValues[1], KeyValues[2]}, error_type \in {"429", "other"} :
          \E i \in {IndexOfKey(keys, v, 1)} :
             /\ i > 0 => keys[i].error_count < MaxErrors
             /\ KeyStep(IF i > 0
                        THEN [keys EXCEPT ![i] = ErrorKey(keys[i], error_type, now)]
                        ELSE keys, now, NoOp)

ReportSuccess ==
    /\ lastOp = NoOp
    /\ \E v \in {KeyValues[1], KeyValues[2]} :
          \E i \in {IndexOfKey(keys, v, 1)} :
             KeyStep(IF i > 0 THEN [keys EXCEPT ![i] = SuccessKey(keys[i])]
                     ELSE keys, now, NoOp)

\* a minute passes
Tick ==
    /\ lastOp = NoOp
    /\ now < MaxNow
    /\ KeyStep(keys, now + 1, NoOp)

\* the caller has the key
KeyReturn ==
    /\ lastOp # NoOp
    /\ KeyStep(keys, now, NoOp)

KeysNext ==
    \/ GetActiveKey
    \/ ReportError
    \/ ReportSuccess
    \/ Tick
    \/ KeyReturn

SpecKeys == KeysInit /\ [][KeysNext]_vars

----------------------------------------------------------------------------
(* fetcher/base.py: BaseFetcher *)

MaxItems == 2
MaxRuns == 2

ExternalIds == {"a", "b"}
MetricValues == {1, 2}

\* self.platform of the fetcher
Platform == "rss"

\* what fetch hands over: an entry and whether parse_item accepts it
RawItems ==
    [external_id : ExternalIds, raw_metrics : MetricValues, valid : BOOLEAN]

\* parse_item: the standardized item, or <<>> for None
ParseItem(raw) ==
    IF raw.valid
    THEN <<[external_id |-> raw.external_id, raw_metrics |-> raw.raw_metrics]>>
    ELSE <<>>

\* the parsed_items of run: the items parse_item returned, in order
RECURSIVE ParseItems(_)
ParseItems(raws) ==
    IF raws = <<>> THEN <<>>
    ELSE ParseItem(Head(raws)) \o ParseItems(Tail(raws))

ItemLists(S) == UNION { [1..n -> S] : n \in 0..MaxItems }

\* query(Content).filter(platform, external_id).first() on the stored rows:
\* the index of the row, 0 for None.  The session does not flush before a
\* query, so an object added and not yet committed is not found.
FindContent(table, external_id) ==
    IF \E i \in 1..Len(table) : table[i].platform = Platform
                                /\ table[i].external_id = external_id
    THEN CHOOSE i \in 1..Len(table) : table[i].platform = Platform
                                      /\ table[i].external_id = external_id
    ELSE 0

\* the loop of save_items from item i on: the rows with their pending
\* updates, the objects added to the session, and new_count
RECURSIVE SaveLoop(_, _, _, _, _)
SaveLoop(table, added, new_count, items, i) ==
    IF i > Len(items)
    THEN [table |-> table, added |-> added, new_count |-> new_count]
    ELSE LET existing == FindContent(table, items[i].external_id)
         IN  IF existing > 0
             THEN SaveLoop([table EXCEPT ![existing].raw_metrics = items[i].raw_metrics],
                           added, new_count, items, i + 1)
             ELSE SaveLoop(table,
                           Append(added, [platform |-> Platform,
                                          external_id |-> items[i].external_id,
                                          raw_metrics |-> items[i].raw_metrics]),
                           new_count + 1, items, i + 1)

\* uq_content_platform_external_id holds among the rows
UniqueContent(table) ==
    \A i, j \in 1..Len(table) :
        (table[i].platform = table[j].platform
         /\ table[i].external_id = table[j].external_id) => i = j

\* save_items on a session that is usable or not: the rows it leaves, whether
\* the session is usable afterwards, and what it returns or raises
SaveItemsOn(table, ok, items) ==
    IF ~ok
    THEN [table |-> table, usable |-> FALSE, res |-> Raise("PendingRollbackError")]
    ELSE LET loop == SaveLoop(table, <<>>, 0, items, 1)
         IN  IF UniqueContent(loop.table \o loop.added)
             THEN [table |-> loop.table \o loop.added, usable |-> TRUE,
                   res |-> Ok(loop.new_count)]
             ELSE [table |-> table, usable |-> FALSE,
                   res |-> Raise("IntegrityError")]

\* log_fetch on a session that is usable or not
LogFetch(lg, ok, status) ==
    IF ok THEN [logs |-> Append(lg, status), res |-> Ok(status)]
    ELSE [logs |-> lg, res |-> Raise("PendingRollbackError")]

\* what fetch may do: return items, return an error, or raise
FetchOutcomes == {"items", "error", "raises"}

\* FetchResult as far as its caller reads it
FetchResult(success, new_items) == [success |-> success, new_items |-> new_items]

\* the handler of run: log the failure and return the failed result
RunFailed(table, ok, lg, at) ==
    LET log == LogFetch(lg, ok, "failed")
    IN  [table |-> table, usable |-> ok, logs |-> log.logs, lastFetchAt |-> at,
         res |-> IF log.res.ok THEN Ok(FetchResult(FALSE, 0)) ELSE log.res]

\* run at time t
RunOn(table, ok, lg, at, t, outcome, raws) ==
    LET running == LogFetch(lg, ok, "running")
    IN  IF ~running.res.ok
        THEN [table |-> table, usable |-> ok, logs |-> lg, lastFetchAt |-> at,
              res |-> running.res]
        ELSE IF outcome # "items"
        THEN RunFailed(table, ok, running.logs, at)
        ELSE LET saved == SaveItemsOn(table, ok, ParseItems(raws))
             IN  IF ~saved.res.ok
                 THEN RunFailed(saved.table, saved.usable, running.logs, at)
                 ELSE [table |-> saved.table, usable |-> TRUE,
                       logs |-> Append(running.logs, "success"),
                       lastFetchAt |-> {t},
                       res |-> Ok(FetchResult(TRUE, saved.res.v))]

\* a fetcher on an empty store with a fresh session; nothing else is in use
FetchInit ==
    /\ CalcIdle
    /\ StoreIdle
    /\ KeysIdle
    /\ FetchIdle

FetchStep(table, ok, lg, at, t, op) ==
    /\ contents' = table
    /\ usable' = ok
    /\ logs' = lg
    /\ lastFetchAt' = at
    /\ now' = t
    /\ lastOp' = op
    /\ UNCHANGED <<calcVars, processed, scores, authorCache, fullRuns, briefVars,
                   passes, keys>>

SaveItems ==
    /\ lastOp = NoOp
    /\ \E items \in ItemLists([external_id : ExternalIds, raw_metrics : MetricValues]) :
          \E out \in {SaveItemsOn(contents, usable, items)} :
             FetchStep(out.table, out.usable, logs, lastFetchAt, now,
                       [kind |-> "save_items", items |-> items,
                        before |-> contents, res |-> out.res])

Run ==
    /\ lastOp = NoOp
    /\ now < MaxRuns
    /\ \E outcome \in FetchOutcomes :
          \E raws \in IF outcome = "items" THEN ItemLists(RawItems) ELSE {<<>>} :
             \E out \in {RunOn(contents, usable, logs, lastFetchAt, now + 1,
                               outcome, raws)} :
                FetchStep(out.table, out.usable, out.logs, out.lastFetchAt, now + 1,
                          [kind |-> "run", before |-> contents, logged |-> logs,
                           fetched |-> lastFetchAt, res |-> out.res])

\* the caller has the result
FetchReturn ==
    /\ lastOp # NoOp
    /\ FetchStep(contents, usable, logs, lastFetchAt, now, NoOp)

FetchNext ==
    \/ SaveItems
    \/ Run
    \/ FetchReturn

SpecFetch == FetchInit /\ [][FetchNext]_vars

----------------------------------------------------------------------------
(* Claims about calculate *)

\* a content and the store's answers are chosen; the store is not in use
InitCalc == CalcInit /\ StoreIdle /\ ToolsIdle

SpecCalc == InitCalc /\ [][CalcNext]_vars

\* What the try block of the calculate that ran does on its input
CalcBody ==
    IF calcIn.which = "heat" THEN HeatBody(calcIn.c)
    ELSE PotentialBody(calcIn.c, calcIn.q, calcIn.cache).res

\* C1: the score calculate returns, heat or potential, is within [0, 100]
\* (0 .. 10000 hundredths), whatever the metrics, platform and publish time.
C1_ScoreInRange ==
    calcOut.kind = "result" => (0 <= calcOut.score /\ calcOut.score <= 10000)

\* C1's case: the heat of very large metrics is above 100 and is returned as 100
C1_Witness ==
    /\ calcOut.kind = "result"
    /\ calcIn.which = "heat"
    /\ calcIn.c.metrics.likes = LargeMetric
    /\ calcOut.success
    /\ calcOut.factors.engagement_score > 10000
    /\ calcOut.score = 10000

\* C2: calculate never raises to its caller, and when a step of the
\* computation fails the result has success = false, score = 0 and the
\* error text in factors.
C2_NeverRaises ==
    calcOut.kind = "result" =>
        /\ ~calcOut.raised
        /\ ~CalcBody.ok =>
              /\ ~calcOut.success
              /\ calcOut.score = 0
              /\ calcOut.factors = [error |-> CalcBody.exc]
              /\ calcOut.error = CalcBody.exc
        /\ CalcBody.ok => calcOut.success

\* C2's case: a step of the potential calculation failed (the store's author
\* query raised) and calculate returned the failure as a result
C2_Witness ==
    /\ calcOut.kind = "result"
    /\ calcIn.which = "potential"
    /\ ~calcIn.q.authorScores.ok
    /\ ~calcOut.success
    /\ calcOut.error = "OperationalError"

----------------------------------------------------------------------------
(* Claims about the persistence of scores *)

\* Score rows never move or vanish: the record of a (content, score_type)
\* stays the record it was
InPlace ==
    /\ Len(scores') >= Len(scores)
    /\ \A i \in 1 .. Len(scores) :
          /\ scores'[i].content_id = scores[i].content_id
          /\ scores'[i].score_type = scores[i].score_type

\* the Score rows of (cid, t)
RowsOf(cid, t) ==
    { i \in 1 .. Len(scores) : scores[i].content_id = cid /\ scores[i].score_type = t }

\* score_content on a working Session with a calculation that succeeded wrote
\* the result into the one record of its (content, score_type)
WrittenInPlace ==
    (lastOp.kind = "score_content" /\ lastOp.fault = "none" /\ lastOp.out # "failed")
        => /\ lastOp.out = "written"
           /\ \A i \in RowsOf(lastOp.cid, lastOp.t) :
                 /\ scores[i].score = lastOp.score
                 /\ scores[i].factors = lastOp.factors
           /\ RowsOf(lastOp.cid, lastOp.t) # {}

\* C3: after any sequence of score_content / score_batch / score_unprocessed
\* calls of the heat and the potential scorer the store holds at most one
\* Score per (content, score_type), and scoring a content that has a Score of
\* that type overwrites the score and the factors of that record in place
\* instead of adding a second record.
C3_UpsertInPlace ==
    /\ [](UniqueScores(scores) /\ WrittenInPlace)
    /\ [][InPlace]_vars

\* a content that had a Score of the type was scored again, with another score
C3_Witness ==
    /\ lastOp.kind = "score_content"
    /\ lastOp.out = "written"
    /\ lastOp.old >= 0
    /\ lastOp.old # lastOp.score
    /\ Cardinality(RowsOf(lastOp.cid, lastOp.t)) = 1

\* C4: in score_batch a failure while scoring one item never aborts the
\* batch: every later item is still attempted, and the count returned is the
\* number of items for which a Score was written.
C4_BatchNeverAborts ==
    lastOp.kind = "score_batch"
        => /\ ~lastOp.raised
           /\ lastOp.attempted = lastOp.items
           /\ lastOp.count = lastOp.written

\* the contents on which the calculation of both scorers succeeds
BothSucceed ==
    { cid \in Ids(contents) :
        /\ HeatCalculate(contents[cid]).success
        /\ PotentialCalculate(contents[cid],
               StoreAnswers(contents, scores, cid, TRUE, "none"),
               EmptyCache).result.success }

\* C5: after HeatScorer.score_unprocessed and PotentialScorer.score_unprocessed
\* have both run over the unprocessed contents, in either order, every content
\* on which both calculations succeed has a heat Score and a potential Score.
C5_BothScored ==
    fullRuns = ScoreTypes
        => \A cid \in BothSucceed : \A t \in ScoreTypes : RowsOf(cid, t) # {}

----------------------------------------------------------------------------
(* Claims about the selection *)

\* the ids of a list
Elems(seq) == { seq[i] : i \in 1 .. Len(seq) }

\* the place of a content in the iteration order of the day's contents
PlaceIn(daily, cid) == CHOOSE i \in 1 .. Len(daily) : daily[i] = cid

HeatScoreOf(cid) == ScoreScalar(scores, cid, "heat")
PotentialScoreOf(cid) == ScoreScalar(scores, cid, "potential")

\* C6: potential_top never holds a content whose heat score is >= 30 or whose
\* potential score is <= 70, and never one without a potential Score; an
\* absent heat score counts as 0.
C6_PotentialTopFilter ==
    lastOp.kind = "select"
        => \A cid \in Elems(lastOp.potential_top) :
              /\ PotentialScoreOf(cid) # NoScore
              /\ PotentialScoreOf(cid) > 7000
              /\ (HeatScoreOf(cid) = NoScore \/ HeatScoreOf(cid) < 3000)

\* potential_top took a content without a heat Score, and left out one with
\* heat exactly 30 and one with potential exactly 70 whose other score fits
C6_Witness ==
    /\ lastOp.kind = "select"
    /\ \E cid \in Elems(lastOp.potential_top) : HeatScoreOf(cid) = NoScore
    /\ \E cid \in Elems(lastOp.daily) \ Elems(lastOp.potential_top) :
          HeatScoreOf(cid) = 3000 /\ PotentialScoreOf(cid) > 7000
    /\ \E cid \in Elems(lastOp.daily) \ Elems(lastOp.potential_top) :
          HeatScoreOf(cid) = 2999 /\ PotentialScoreOf(cid) = 7000
    /\ Len(lastOp.potential_top) < POTENTIAL_TOP_COUNT

\* the day's contents that have a heat Score
WithHeatScore == { cid \in Elems(lastOp.daily) : HeatScoreOf(cid) # NoScore }

\* C7: if n of the day's contents have a heat Score (of any value in
\* [0, 100]), heat_top has exactly min(10, n) ids, all among those n, and no
\* content left out has a strictly higher heat score than one selected.
C7_HeatTopExact ==
    lastOp.kind = "select"
        => /\ Len(lastOp.heat_top) = Min(HEAT_TOP_COUNT, Cardinality(WithHeatScore))
           /\ Elems(lastOp.heat_top) \subseteq WithHeatScore
           /\ \A out \in WithHeatScore \ Elems(lastOp.heat_top) :
              \A in \in Elems(lastOp.heat_top) :
                 ~(HeatScoreOf(out) > HeatScoreOf(in))

\* C8: the ids of heat_top are in descending order of heat score, and two
\* contents of equal heat score are in the order the day's contents were
\* iterated in.
C8_HeatTopOrdered ==
    lastOp.kind = "select"
        => \A i, j \in 1 .. Len(lastOp.heat_top) :
              i < j =>
                 \/ HeatScoreOf(lastOp.heat_top[i]) > HeatScoreOf(lastOp.heat_top[j])
                 \/ /\ HeatScoreOf(lastOp.heat_top[i]) = HeatScoreOf(lastOp.heat_top[j])
                    /\ PlaceIn(lastOp.daily, lastOp.heat_top[i])
                          < PlaceIn(lastOp.daily, lastOp.heat_top[j])

\* heat_top is full, was cut, holds contents of equal score, and the day's
\* contents were iterated against the order of their ids
C8_Witness ==
    /\ lastOp.kind = "select"
    /\ Len(lastOp.heat_top) = HEAT_TOP_COUNT
    /\ Cardinality({ cid \in WithHeatScore : HeatScoreOf(cid) # 0 }) > HEAT_TOP_COUNT
    /\ \E i \in 1 .. HEAT_TOP_COUNT - 1 :
          /\ HeatScoreOf(lastOp.heat_top[i]) = HeatScoreOf(lastOp.heat_top[i + 1])
          /\ lastOp.heat_top[i] > lastOp.heat_top[i + 1]

\* the ids of potential_top that are not in heat_top, in their order
OnlyPotential ==
    SelectSeq(lastOp.potential_top, LAMBDA cid : cid \notin Elems(lastOp.heat_top))

\* C9: featured has no id twice, has at most 15 ids, and is heat_top followed
\* by the ids of potential_top that heat_top does not hold, in their order.
C9_FeaturedDedup ==
    lastOp.kind = "select"
        => /\ \A i, j \in 1 .. Len(lastOp.featured) :
                 lastOp.featured[i] = lastOp.featured[j] => i = j
           /\ Len(lastOp.featured) <= 15
           /\ lastOp.featured = lastOp.heat_top \o OnlyPotential

\* a full heat_top and a full potential_top that share a content
C9_Witness ==
    /\ lastOp.kind = "select"
    /\ Len(lastOp.heat_top) = HEAT_TOP_COUNT
    /\ Len(lastOp.potential_top) = POTENTIAL_TOP_COUNT
    /\ Elems(lastOp.heat_top) \cap Elems(lastOp.potential_top) # {}
    /\ Len(lastOp.featured) < HEAT_TOP_COUNT + POTENTIAL_TOP_COUNT

----------------------------------------------------------------------------
(* Claims about generate *)

\* C10: generate is idempotent on an unchanged snapshot: called twice for a
\* date with no change to the Content, Score and Tag records in between, it
\* yields the same heat_top, potential_top, featured, topic groupings and stats
\* both times, although the first call set briefed flags.
C10_GenerateIdempotent ==
    lastOp.kind = "generate"
        => /\ ~lastOp.raised
           /\ (lastOp.prev # NoBrief /\ lastOp.prev.scores = scores)
                 => lastOp.out = lastOp.prev.out

\* the ids of the contents published on the day d
PublishedOn(d) == { i \in Ids(contents) : PublishedDay(contents[i]) = d }

\* C11: after any sequence of generate calls there is at most one Brief per
\* date, and generate for a date leaves the Brief of that date holding the
\* title, the stats and the id lists of this call, overwriting the record the
\* date had.
C11_OneBriefPerDate ==
    lastOp.kind = "generate"
        => /\ ~lastOp.raised
           /\ briefs[lastOp.date] # NoBrief
           /\ briefs[lastOp.date] =
                 BriefRow(lastOp.date, lastOp.title, lastOp.out, lastOp.before)

\* C13: after generate(D) every content of the Brief's featured list is
\* briefed, and the call changed the briefed flag of no other content.
C13_FeaturedBriefed ==
    lastOp.kind = "generate"
        => /\ ~lastOp.raised
           /\ briefs[lastOp.date] # NoBrief
           /\ Elems(briefs[lastOp.date].featured_ids) \subseteq briefed
           /\ briefed \ Elems(briefs[lastOp.date].featured_ids)
                 = lastOp.briefedBefore \ Elems(briefs[lastOp.date].featured_ids)

\* C14: generate for a date without content is no error: it writes a Brief
\* with total 0 and empty heat_top, potential_top, featured and topic
\* groupings, whatever else the store holds.
C14_EmptyDay ==
    (lastOp.kind = "generate" /\ PublishedOn(lastOp.date) = {})
        => /\ ~lastOp.raised
           /\ briefs[lastOp.date] # NoBrief
           /\ briefs[lastOp.date].total_contents = 0
           /\ lastOp.out.heat_top = <<>>
           /\ lastOp.out.potential_top = <<>>
           /\ lastOp.out.featured = <<>>
           /\ DOMAIN lastOp.out.topic_breakdown = {}

----------------------------------------------------------------------------
(* Claims about the author lookup *)

BatchKinds == {"score_batch", "score_unprocessed"}

\* the last call was a batch of the potential scorer in which the store failed
\* the author lookup of an item: the fault fell on an item that has an author
\* whose weight the scorer had not cached
AuthorLookupFailed ==
    /\ lastOp.kind \in BatchKinds
    /\ lastOp.t = "potential"
    /\ lastOp.fault.kind = "lookup"
    /\ contents[lastOp.list[lastOp.fault.at]].authorId # ""
    /\ CacheKey(contents[lastOp.list[lastOp.fault.at]]) \notin DOMAIN authorCache

\* C15: a store failure during the author lookup of potential scoring is no
\* fault of the item: it leaves the batch as an error of the batch instead of
\* being turned into a success=false result and skipped.
C15_LookupPropagates == AuthorLookupFailed => lastOp.raised

\* every metric of the content is a number a float can hold
WellFormed(c) == \A k \in DOMAIN c.metrics : c.metrics[k] >= 0

\* the author weight of the claim for content cid over the Scores now stored:
\* 50 without an author id, 55 without a Score of the author's other content,
\* else their average, clamped to [0, 100]
ExpectedAuthorWeight(cid) ==
    IF contents[cid].authorId = "" THEN 5000
    ELSE IF AuthorScoresOf(contents, scores, cid) = <<>> THEN 5500
    ELSE Clamp100(SeqSum(AuthorScoresOf(contents, scores, cid))
                     \div Len(AuthorScoresOf(contents, scores, cid)))

\* C16: a content is scored with the author_weight that is the average,
\* clamped to [0, 100], of the Scores then stored for the other content of its
\* (platform, author_id), 55 if there is none, 50 if it has no author id.
\* (score_content writes only the Score of the content itself, which the
\* average leaves out, so the Scores after the call are those it read.)
C16_AuthorWeight ==
    (/\ lastOp.kind = "score_content"
     /\ lastOp.t = "potential"
     /\ lastOp.fault = "none"
     /\ WellFormed(contents[lastOp.cid]))
        => /\ lastOp.out = "written"
           /\ lastOp.factors.author_weight = ExpectedAuthorWeight(lastOp.cid)

\* C17: the author cache is never stale across runs: a run (a score_batch or
\* score_unprocessed call) scores with the author_weight of the Scores stored
\* at that time, not with one cached during an earlier run.  Stated for runs
\* over a single content, where whatever the cache held came from earlier runs.
C17_CacheFresh ==
    (/\ lastOp.kind \in BatchKinds
     /\ lastOp.t = "potential"
     /\ Len(lastOp.list) = 1
     /\ lastOp.written = 1)
        => \A i \in RowsOf(lastOp.list[1], "potential") :
              scores[i].factors.author_weight = ExpectedAuthorWeight(lastOp.list[1])

----------------------------------------------------------------------------
(* Claims about scarcity and decay *)

\* the last call scored, for potential, the first content of the day of its
\* platform: created today, no content of the platform created earlier today
ScoredFirstOfDay ==
    /\ lastOp.kind = "score_content"
    /\ lastOp.t = "potential"
    /\ lastOp.out = "written"
    /\ contents[lastOp.cid].createdToday
    /\ DailyPosition(contents, lastOp.cid) = 0

\* C18: the first content of the current day of a platform gets scarcity 70,
\* whatever its metrics and however many contents of the platform came after.
C18_FirstOfDayScarcity == ScoredFirstOfDay => lastOp.factors.scarcity = 7000

\* The heat calculate returns for the content that was scored, had it been
\* published h hours ago
HeatAtAge(h) == HeatCalculate([calcIn.c EXCEPT !.hours = h])

\* The ages a dated content is scored at
DatedHours == { a.hours : a \in { x \in AgeInputs : x.dated } }

\* C19: of two contents with the same metrics and platform the one published
\* longer ago never gets the higher heat score; the decay factor is
\* 0.5^(hours/24) floored at 0.1, never below 0.1, and 1.0 for undated content.
C19_DecayMonotone ==
    (calcOut.kind = "result" /\ calcIn.which = "heat") =>
        /\ calcIn.c.dated =>
              \A h \in DatedHours :
                  h > calcIn.c.hours => HeatAtAge(h).score <= calcOut.score
        /\ calcOut.success =>
              /\ calcOut.factors.decay_factor >= MIN_DECAY
              /\ ~calcIn.c.dated => calcOut.factors.decay_factor = 1000

----------------------------------------------------------------------------
(* Claims about generate calls side by side *)

\* both calls of generate have ended
PassesEnded == \A p \in Passes : passes[p].pc \in {"done", "raised"}

\* the columns generate assigns (lines 92-100, 103-112)
WrittenColumns ==
    {"title", "stats", "total_contents", "featured_ids", "heat_top_ids",
     "potential_ids"}

\* row carries in every column generate assigns what pass p made
WrittenBy(p, row) ==
    \A col \in WrittenColumns :
        row[col] = BriefRow(passes[p].date, passes[p].title, passes[p].out, NoBrief)[col]

\* C20: when two generate passes for the same date are interleaved in any way,
\* neither pass fails, one Brief record exists for the date afterwards, and its
\* fields are the complete output of one of the two passes.
C20_PassesSerialized ==
    PassesEnded =>
        /\ \A p \in Passes : passes[p].pc = "done"
        /\ \A d \in { passes[p].date : p \in Passes } :
              /\ briefs[d] # NoBrief
              /\ \E p \in Passes : WrittenBy(p, briefs[d])

----------------------------------------------------------------------------
(* Claims about a failed calculation *)

\* a call of score_content whose calculate returned success = false
FailedScoreContent ==
    /\ lastOp = NoOp
    /\ lastOp'.kind = "score_content"
    /\ lastOp'.out = "failed"

----------------------------------------------------------------------------
(* Claims about what a brief depends on *)

\* the store with the tag links of the contents of other days than d removed
WithoutOtherTags(conts, d) ==
    [i \in 1 .. Len(conts) |->
        IF PublishedDay(conts[i]) = d THEN conts[i]
        ELSE [conts[i] EXCEPT !.topics = {}]]

\* the Score rows of the contents published on day d
RECURSIVE DayScores(_, _, _)
DayScores(conts, rows, d) ==
    IF rows = <<>> THEN <<>>
    ELSE IF PublishedDay(conts[Head(rows).content_id]) = d
         THEN <<Head(rows)>> \o DayScores(conts, Tail(rows), d)
         ELSE DayScores(conts, Tail(rows), d)

\* what generate may produce for day d on the store (conts, rows), lines 55-63
BriefOutputs(conts, rows, d) ==
    { BriefOut(CalculateStats(conts, daily, d),
               SelectHeatTop(rows, daily),
               SelectPotential(rows, daily),
               SelectFeatured(SelectHeatTop(rows, daily), SelectPotential(rows, daily)),
               breakdown) :
        daily \in RowOrders({ i \in Ids(conts) : PublishedDay(conts[i]) = d }),
        breakdown \in TopicBreakdowns(conts) }

\* C22: the brief depends only on the day's snapshot: generate for a date
\* produces the heat_top, potential_top, featured, topic groupings and stats
\* it produces on a store that holds the same data for the day and differs in
\* the scores and tag links of other days.
C22_DayOnly ==
    lastOp.kind = "generate"
        => /\ ~lastOp.raised
           /\ lastOp.out \in BriefOutputs(WithoutOtherTags(contents, lastOp.date),
                                           DayScores(contents, scores, lastOp.date),
                                           lastOp.date)

----------------------------------------------------------------------------
(* Claims about the statistics of a brief *)

RECURSIVE SumOf(_)
\* the sum of the values of a dict
SumOf(d) ==
    IF DOMAIN d = {} THEN 0
    ELSE LET k == CHOOSE x \in DOMAIN d : TRUE
         IN d[k] + SumOf([x \in DOMAIN d \ {k} |-> d[x]])

\* the topic names the contents may carry
TopicNames == UNION { c.topics : c \in StatContents }

\* C24: stats.total is the number of the day's contents and the sum of the
\* per-platform counts; each per-topic count is the number of distinct contents
\* of the day that carry the topic tag.
C24_StatsCounts ==
    lastOp.kind = "stats" =>
        /\ lastOp.stats.total = Cardinality(PublishedOn(lastOp.date))
        /\ lastOp.stats.total = SumOf(lastOp.stats.platforms)
        /\ \A n \in TopicNames :
              DictGet(lastOp.stats.topics, n) =
                 Cardinality({ i \in PublishedOn(lastOp.date) : n \in contents[i].topics })
        /\ DOMAIN lastOp.stats.topics \subseteq TopicNames

\* C24's case: three contents of the day, two of one platform and one of
\* another, two of them with the same topic tag
C24_Witness ==
    /\ lastOp.kind = "stats"
    /\ lastOp.stats.total = 3
    /\ DictGet(lastOp.stats.platforms, "x") = 2
    /\ DictGet(lastOp.stats.platforms, "reddit") = 1
    /\ DictGet(lastOp.stats.topics, "AI") = 2

----------------------------------------------------------------------------
(* Claims about the delivery sinks *)

\* the delivery columns of a brief
DeliveryColumns == {"telegram_sent", "email_sent", "sent_at"}

\* the flag of the channel a publish call sends on
OwnFlag(kind) == IF kind = "publish_telegram" THEN "telegram_sent" ELSE "email_sent"

\* C26: a delivery sink sets its own channel's flag (and sent_at, when it was
\* unset) exactly when the send succeeded, returns false and leaves the three
\* delivery columns as they were on any failure, and never changes another
\* field of the brief; publish_all calls each configured channel whatever the
\* other one did.
C26_SinkFrame ==
    /\ lastOp.kind \in {"publish_telegram", "publish_email"} =>
          /\ lastOp.sent <=> lastOp.ret
          /\ lastOp.sent => briefs[Today] = MarkSent(lastOp.before, OwnFlag(lastOp.kind))
          /\ ~lastOp.sent => briefs[Today] = lastOp.before
    /\ lastOp.kind = "publish_all" =>
          /\ lastOp.telegram.called <=> lastOp.env.bot_token
          /\ lastOp.email.called <=> lastOp.env.gog_account
          /\ lastOp.telegram.sent <=> lastOp.telegram.ret
          /\ lastOp.email.sent <=> lastOp.email.ret
    /\ lastOp.kind \in {"publish_telegram", "publish_email", "publish_all"} =>
          \A col \in DOMAIN lastOp.before \ DeliveryColumns :
              briefs[Today][col] = lastOp.before[col]

----------------------------------------------------------------------------
(* Claims about the scheduled jobs *)

\* C27: when send_daily_brief runs and no brief exists for today, it generates
\* one and then finds and publishes it: the run ends with publish_all called
\* on a brief, not with the 'failed to generate or find brief' outcome.
C27_SendGeneratesAndPublishes ==
    (lastOp.kind = "send_daily_brief" /\ ~lastOp.found)
        => lastOp.outcome = "published"

----------------------------------------------------------------------------
(* Claims about the KeyManager *)

\* the key of the list that holds the value
KeyWith(ks, v) == ks[IndexOfKey(ks, v, 1)]

\* the loop of get_active_key passes over the key: it is in cooldown, or its
\* errors have reached the limit
PassedOver(key, t) == InCooldown(key, t) \/ key.error_count >= ErrorLimit

\* C28: get_active_key never returns a key whose cooldown_until is still in
\* the future, a key that just reported a 429 in particular, and it returns
\* the first key in list order that is not cooling.
C28_NeverReturnsCoolingKey ==
    lastOp.kind = "get_active_key" =>
        /\ lastOp.ret # "None" =>
              ~InCooldown(KeyWith(lastOp.before, lastOp.ret), now)
        /\ \A i \in 1..Len(lastOp.before) :
              (/\ ~PassedOver(lastOp.before[i], now)
               /\ \A j \in 1..(i - 1) : PassedOver(lastOp.before[j], now))
              => lastOp.ret = lastOp.before[i].value

\* C29: a key that was put into cooldown becomes selectable again once its
\* cooldown time has passed: the next get_active_key that reaches it returns
\* it, with no report_success and no reset of all keys.
C29_RecoversAfterCooldown ==
    lastOp.kind = "get_active_key" =>
        \A i \in 1..Len(lastOp.before) :
            (/\ lastOp.before[i].cooldown_until # {}
             /\ ~InCooldown(lastOp.before[i], now)
             /\ \A j \in 1..(i - 1) : PassedOver(lastOp.before[j], now))
            => lastOp.ret = lastOp.before[i].value

----------------------------------------------------------------------------
(* Claims about the fetcher *)

\* the number of stored rows of the fetcher's platform with the external id
Stored(table, external_id) ==
    Cardinality({ i \in 1..Len(table) : table[i].platform = Platform
                                        /\ table[i].external_id = external_id })

\* C21: after a save_items call with any item list, a list that repeats an
\* external_id included, there is exactly one Content record for every
\* external_id sighted; a sighting of a stored id creates no record and
\* removes none, and the returned number is the number of records the call
\* created.
C21_OneRecordPerExternalId ==
    lastOp.kind = "save_items" =>
        /\ \A i \in 1..Len(lastOp.items) :
              Stored(contents, lastOp.items[i].external_id) = 1
        /\ \A id \in ExternalIds :
              Stored(lastOp.before, id) = 1 => Stored(contents, id) = 1
        /\ lastOp.res.ok
        /\ lastOp.res.ok => lastOp.res.v = Len(contents) - Len(lastOp.before)

\* C30: a run writes a running log entry and then exactly one terminal entry,
\* success or failed as the returned FetchResult says; Content records and
\* last_fetch_at change only in runs that end with success; a run never
\* raises.
C30_RunLogsAndNeverRaises ==
    lastOp.kind = "run" =>
        /\ lastOp.res.ok
        /\ lastOp.res.ok =>
              /\ logs = lastOp.logged \o
                        <<"running",
                          IF lastOp.res.v.success THEN "success" ELSE "failed">>
              /\ ~lastOp.res.v.success =>
                    /\ contents = lastOp.before
                    /\ lastFetchAt = lastOp.fetched

====
